---- MODULE Spec2Model ----
(***************************************************************************)
(* Transaction execution pipeline of solana-common: the batch orchestrator *)
(* MultiTransactionPayload.execute, the per-transaction coordinator that   *)
(* races the reliable sender against the confirmation watcher, and the     *)
(* sender's retry loop.                                                    *)
(*                                                                         *)
(* The repository holds two generations of the coordinator:                *)
(*   "inclass"  sender and watcher are private methods of the payload      *)
(*              class and share no cancellation                            *)
(*              (src/src/payload/multiTransactionPayload.ts 290-427 and    *)
(*              894-1012);                                                 *)
(*   "abort"    the coordinator owns one AbortController per transaction   *)
(*              and hands it to sendTransactionWithRetry and               *)
(*              confirmTransactionWithTimeout of ../utils                  *)
(*              (src/unnamed/part_003 324-360).                            *)
(* The variable version says which generation a behaviour runs.            *)
(* The two functions of ../utils are not among the sources: their loop is  *)
(* taken to be the in-class one, and their reaction to the signal          *)
(* (Cancelled, SenderCancelled, WatcherCancelled, WatcherAbortOnSuccess)   *)
(* and to confirmationTimeout follows the specification's paragraphs on    *)
(* cancellation.                                                           *)
(***************************************************************************)
EXTENDS Integers, Sequences, FiniteSets, TLC

\* Largest number of requests in one batch.
MaxBatch == 2
\* Blocks between the height at which the freshness window is fetched and
\* its lastValidBlockHeight.
Window == 1
\* Largest number of broadcast attempts of a lone transaction that a
\* behaviour explores; a batch shares out as many among its transactions.
SendBound == 4
\* Number.MAX_SAFE_INTEGER (2^53 - 1), the default of maxSendTransactionRetries:
\* a budget no sender exhausts. TLC's integers end at 2^31 - 1, which no retry
\* counter of the model reaches either.
MAX_SAFE_INTEGER == 2147483647

VARIABLES
    version,              \* "inclass" | "abort"
    n,                    \* transactionsData.length
    signAllTransactions,  \* TRUE when a signing function was given
    enablePriorityFee,    \* options.enablePriorityFee ?? true
    maxRetries,           \* options.maxSendTransactionRetries ?? MAX_SAFE_INTEGER
    phase,                \* where execute stands
    raised,               \* the error execute raised, "none" while it has not
    instructions,         \* transactionsData[i].instructions
    simRes,               \* what simulateTransaction answered for request i
    simulationErrors,     \* the indices pushed by simulate's catch, in order
    blockHeight,          \* the ledger's block height
    lastValidBlockHeight, \* of the freshness window fetched for execution
    blockhash,            \* of the same window, 0 while none is fetched
    transactions,         \* buildVersionTransactions' result
    signedTransactions,   \* what the signer returned
    spc,                  \* sender i: where its loop stands
    retry,                \* sender i: let retry
    wst,                  \* watcher i
    aborted,              \* abortController.signal.aborted of coordinator i
    outcome,              \* the settled result of promise i
    results,              \* what execute returned
    simFailed,            \* history: a simulation raised or reported an error
    answers,              \* history: what sendRawTransaction answered the sender
    elapsed,              \* history: confirmationTimeout ms passed, watcher pending
    single,               \* one run of TransactionPayload.execute
    construction,         \* one call of a payload constructor
    identical,            \* one batch whose requests may be equal
    estimator,            \* one call of getRecentPriorityFee per level
    injector,             \* successive runs of addPriorityFeeInstructions
    mintCache             \* mintToDecimalsMap and the getMintDecimals calls

vars == <<version, n, signAllTransactions, enablePriorityFee, maxRetries, phase,
          raised, instructions, simRes, simulationErrors, blockHeight,
          lastValidBlockHeight, blockhash, transactions, signedTransactions,
          spc, retry, wst, aborted, outcome, results, simFailed, answers, elapsed,
          single, construction, identical, estimator, injector, mintCache>>

config == <<version, n, signAllTransactions, enablePriorityFee, maxRetries>>
ledger == <<blockHeight, lastValidBlockHeight, blockhash>>
built == <<transactions, signedTransactions>>
coord == <<spc, retry, wst, aborted, outcome>>
hist == <<simFailed, answers, elapsed>>
\* What the batch pipeline leaves alone: the state of the separate studies of
\* the single payload, the constructors, equal requests, the fee estimator,
\* the injector and the decimals cache.
others == <<single, construction, identical, estimator, injector, mintCache>>

Requests == 1..n

\* The history variables follow the execution of a lone transaction.
Observed == n = 1

Pending == [status |-> "pending", reason |-> "none"]
Fulfilled == [status |-> "fulfilled", reason |-> "none"]
Rejected(err) == [status |-> "rejected", reason |-> err]

\* The values of the separate studies while they do not run.
SingleIdle ==
    [pc |-> "idle", sign |-> TRUE, option |-> "omitted", epf |-> TRUE, idl |-> {},
     instructions |-> <<>>, priorityFeeInstructions |-> <<>>, transaction |-> <<>>,
     simCalls |-> 0, feeFetches |-> 0,
     margin |-> [plus |-> 0, tenths |-> 10], unitsConsumed |-> 0, computeUnit |-> 0,
     simFailed |-> FALSE, signCalls |-> 0, sends |-> 0,
     err |-> [name |-> "none", message |-> <<>>],
     surfaced |-> [name |-> "none", message |-> <<>>]]
ConstructionIdle ==
    [kind |-> "batch", requests |-> <<>>, result |-> "idle", rpc |-> 0]
IdenticalIdle ==
    [pc |-> "idle", requests |-> <<>>, blockhash |-> 0, signatures |-> <<>>,
     processed |-> {}, outcome |-> <<>>,
     signer |-> "inPlace", signers |-> FALSE, transactions |-> <<>>, results |-> <<>>]
EstimatorIdle ==
    [samples |-> <<>>, maxFeeCap |-> 0, fetchRaises |-> FALSE, applied |-> FALSE,
     sorted |-> <<>>, resorted |-> <<>>, answer |-> <<>>,
     exactPriorityFee |-> [given |-> FALSE, lamports |-> 0], computeUnit |-> 0,
     maxPriorityFee |-> [given |-> FALSE, lamports |-> 0],
     fetches |-> 0, price |-> <<>>]
InjectorIdle ==
    [pc |-> "parked", initial |-> <<>>, instructions |-> <<>>, first |-> <<>>,
     runs |-> 0, suspended |-> 0, overlapped |-> FALSE]
MintCacheIdle ==
    [ledger |-> <<>>, mintToDecimalsMap |-> <<>>, calls |-> <<>>, getTokenSupply |-> 0]

----------------------------------------------------------------------------
(* Construction. validateTransactionData has passed: at least one request,  *)
(* each with at least one instruction and a fee payer.                      *)

Init ==
    /\ version \in {"inclass", "abort"}
    /\ n \in 1..MaxBatch
    /\ signAllTransactions \in BOOLEAN
    /\ enablePriorityFee \in BOOLEAN
    /\ maxRetries \in {1, MAX_SAFE_INTEGER}
    /\ phase = "start"
    /\ raised = "none"
    /\ instructions = [i \in Requests |-> <<"ix">>]
    /\ simRes = [i \in Requests |-> "none"]
    /\ simulationErrors = <<>>
    /\ blockHeight = 0
    /\ lastValidBlockHeight = 0
    /\ blockhash = 0
    /\ transactions = <<>>
    /\ signedTransactions = <<>>
    /\ spc = [i \in Requests |-> "idle"]
    /\ retry = [i \in Requests |-> 0]
    /\ wst = [i \in Requests |-> "idle"]
    /\ aborted = [i \in Requests |-> FALSE]
    /\ outcome = [i \in Requests |-> Pending]
    /\ results = <<>>
    /\ simFailed = FALSE
    /\ answers = "bnfOnly"
    /\ elapsed = FALSE
    /\ single = SingleIdle
    /\ construction = ConstructionIdle
    /\ identical = IdenticalIdle
    /\ estimator = EstimatorIdle
    /\ injector = InjectorIdle
    /\ mintCache = MintCacheIdle

----------------------------------------------------------------------------
(* MultiTransactionPayload.execute up to the launch of the coordinators.    *)

Raise(err) ==
    /\ phase' = "raised"
    /\ raised' = err

\* execute: the signing function is required; then simulate or go straight
\* to the freshness window.
Start ==
    /\ phase = "start"
    /\ IF ~signAllTransactions
         THEN Raise("SIGN_FUNCTION_REQUIRED")
         ELSE /\ phase' = IF enablePriorityFee THEN "simBlockhash" ELSE "blockhash"
              /\ UNCHANGED raised
    /\ UNCHANGED <<others, config, instructions, simRes, simulationErrors, ledger, built,
                   coord, results, hist>>

\* simulate: getLatestBlockhash answers or raises; on an answer the
\* transactions are compiled and handed to the signer (sigVerify is true).
SimBlockhash(ok) ==
    /\ phase = "simBlockhash"
    /\ IF ok THEN phase' = "simSign" /\ UNCHANGED raised ELSE Raise("rpc")
    /\ UNCHANGED <<others, config, instructions, simRes, simulationErrors, ledger, built,
                   coord, results, hist>>

\* simulate: the signer answers or raises; on an answer one
\* simulateTransaction is issued per request.
SimSign(ok) ==
    /\ phase = "simSign"
    /\ IF ok
         THEN /\ phase' = "simulating"
              /\ simRes' = [i \in Requests |-> "pending"]
              /\ UNCHANGED raised
         ELSE /\ Raise("signer")
              /\ UNCHANGED simRes
    /\ UNCHANGED <<others, config, instructions, simulationErrors, ledger, built, coord,
                   results, hist>>

\* What simulateTransaction can answer: a result with unitsConsumed, a result
\* without, a result whose value.err reports an execution error, or a raise.
SimAnswers == {"units", "noUnits", "execErr", "raise"}

\* simulate's per-request try/catch: only a raise is pushed to
\* simulationErrors; every returned result is kept, whatever its value.err.
SimulateCatch(i, r) ==
    IF r = "raise" THEN Append(simulationErrors, i) ELSE simulationErrors

SimulateReturns(i, r) ==
    /\ phase = "simulating"
    /\ simRes[i] = "pending"
    /\ simRes' = [simRes EXCEPT ![i] = r]
    /\ simulationErrors' = SimulateCatch(i, r)
    /\ simFailed' = (simFailed \/ (Observed /\ r \in {"execErr", "raise"}))
    /\ UNCHANGED <<others, config, phase, raised, instructions, ledger, built, coord,
                   results, answers, elapsed>>

\* simulate after Promise.all: the aggregate error when simulationErrors is
\* not empty, else the result map, and execute starts the injector.
SimulateDone ==
    /\ phase = "simulating"
    /\ \A i \in Requests : simRes[i] # "pending"
    /\ IF simulationErrors # <<>>
         THEN Raise("MultiTransactionSimulationError")
         ELSE phase' = "injecting" /\ UNCHANGED raised
    /\ UNCHANGED <<others, config, instructions, simRes, simulationErrors, ledger, built,
                   coord, results, hist>>

\* Faulty variant: no instruction is ever recognised.
NeverHas(list, kind) == FALSE

HasInstruction(list, kind) == \E k \in 1..Len(list) : list[k] = kind

\* addPriorityFeeInstructions: unshift the limit, then the price, each only
\* when the list holds none.
AddPriorityFeeInstructions(list) ==
    LET withLimit == IF HasInstruction(list, "SetComputeUnitLimit")
                       THEN list ELSE <<"SetComputeUnitLimit">> \o list
    IN  IF HasInstruction(list, "SetComputeUnitPrice")
          THEN withLimit ELSE <<"SetComputeUnitPrice">> \o withLimit

\* execute: the injector run of request i; the last one to end lets execute
\* go on to the freshness window (simulationResults goes out of scope).
Inject(i) ==
    /\ phase = "injecting"
    /\ simRes[i] # "injected"
    /\ instructions' = [instructions EXCEPT ![i] = AddPriorityFeeInstructions(@)]
    /\ IF \A j \in Requests \ {i} : simRes[j] = "injected"
         THEN /\ phase' = "blockhash"
              /\ simRes' = [j \in Requests |-> "none"]
         ELSE /\ simRes' = [simRes EXCEPT ![i] = "injected"]
              /\ UNCHANGED phase
    /\ UNCHANGED <<others, config, raised, simulationErrors, ledger, built, coord, results,
                   hist>>

\* Faulty variant of BuildVersionTransactions: the last request is left out.
BuildAllButLast(bh) ==
    [i \in 1..(n - 1) |->
       [data |-> i, instructions |-> instructions[i], recentBlockhash |-> bh]]

\* Faulty variant of BuildVersionTransactions: every transaction after the
\* first is compiled with a blockhash of its own.
BuildWithOwnBlockhash(bh) ==
    [i \in Requests |->
       [data |-> i, instructions |-> instructions[i], recentBlockhash |-> bh + i - 1]]

\* buildVersionTransactions(blockhash): one compiled transaction per request,
\* in order, each with recentBlockhash: blockhash.
BuildVersionTransactions(bh) ==
    [i \in Requests |->
       [data |-> i, instructions |-> instructions[i], recentBlockhash |-> bh]]

\* The blockhash getLatestBlockhash answers at height h: that of the latest
\* block, a different one at every height.
BlockhashAt(h) == h + 1

\* execute: getLatestBlockhash answers or raises; on an answer the
\* transactions are built and handed to the signer.
FetchBlockhash(ok) ==
    /\ phase = "blockhash"
    /\ IF ok
         THEN /\ phase' = "signing"
              /\ lastValidBlockHeight' = blockHeight + Window
              /\ blockhash' = BlockhashAt(blockHeight)
              /\ transactions' = BuildVersionTransactions(blockhash')
              /\ UNCHANGED raised
         ELSE /\ Raise("rpc")
              /\ UNCHANGED <<lastValidBlockHeight, blockhash, transactions>>
    /\ UNCHANGED <<others, config, instructions, simRes, simulationErrors, blockHeight,
                   signedTransactions, coord, results, hist>>

\* What the signer can do: sign and return every transaction in order, return
\* one transaction fewer, or raise (the wallet refuses).
SignerAnswers == {"all", "short", "raise"}

\* execute: the signer answers; one coordinator is launched per signed
\* transaction, its sender waiting for getBlockHeight, its watcher for
\* confirmTransaction.
SignAll(a) ==
    /\ phase = "signing"
    /\ IF a = "raise"
         THEN /\ Raise("signer")
              /\ UNCHANGED <<signedTransactions, spc, wst>>
         ELSE LET k == IF a = "all" THEN n ELSE n - 1
              IN  /\ phase' = "running"
                  /\ signedTransactions' = SubSeq(transactions, 1, k)
                  /\ spc' = [i \in Requests |-> IF i <= k THEN "reading" ELSE "idle"]
                  /\ wst' = [i \in Requests |-> IF i <= k THEN "pending" ELSE "idle"]
                  /\ UNCHANGED raised
    /\ UNCHANGED <<others, config, instructions, simRes, simulationErrors, ledger,
                   transactions, retry, aborted, outcome, results, hist>>

Launched == 1..Len(signedTransactions)

----------------------------------------------------------------------------
(* The ledger.                                                              *)

\* A block is produced. Heights past lastValidBlockHeight all read alike, so
\* the ledger is followed up to that height.
Tick ==
    /\ Launched # {}
    /\ blockHeight < lastValidBlockHeight
    /\ blockHeight' = blockHeight + 1
    /\ UNCHANGED <<others, config, phase, raised, instructions, simRes, simulationErrors,
                   lastValidBlockHeight, blockhash, built, coord, results, hist>>

----------------------------------------------------------------------------
(* The coordinator of transaction i: the async callback of                  *)
(* signedTransactions.map in execute.                                       *)

\* Faulty variant of ControllerOf: one controller shared by the whole batch.
SharedController(i) == 1

\* The AbortController of coordinator i: one is created inside each callback.
ControllerOf(i) == i

\* Faulty variant of SenderReturned: a sender that used up its budget is not
\* taken as having returned.
SenderReturnedUnspent == {"alreadyProcessed", "cancelled"}

\* The states in which the sender has returned without raising.
SenderReturned == {"alreadyProcessed", "exhausted", "cancelled"}
\* Faulty variant of SenderThrew: 'already processed' is rethrown as well.
SenderThrewAll == {"expired", "sendError", "rpcError", "alreadyProcessed"}

SenderThrew == {"expired", "sendError", "rpcError"}
WatcherThrew == {"failed", "raised", "timedOut", "cancelled"}

\* Faulty variant of CatchAbort: the catch rethrows and aborts nothing.
NoAbort(i, ab) == ab

\* The catch around Promise.all: the "abort" generation aborts its
\* controller, the "inclass" generation has none.
CatchAbort(i, ab) ==
    IF version = "abort" THEN [ab EXCEPT ![ControllerOf(i)] = TRUE] ELSE ab

\* The .catch chained to confirmTransactionWithTimeout.
WatcherCatchAbort(i, ab) ==
    IF version = "abort" THEN [ab EXCEPT ![ControllerOf(i)] = TRUE] ELSE ab

\* Faulty variant of RejectAll: a task's rejection does not settle the
\* coordinator's promise.
RejectNone(i, err) == outcome

\* Promise.all rejects with the first rejection; the callback's outer catch
\* rethrows it through parseSolanaSendTransactionError. A later rejection of
\* the other task changes nothing.
RejectAll(i, err) ==
    IF outcome[i].status = "pending"
      THEN [outcome EXCEPT ![i] = Rejected(err)] ELSE outcome

\* Faulty variant of ResolveAll: the sender's return is enough.
ResolveOnSender(i, senderDone, watcherDone) ==
    IF senderDone /\ outcome[i].status = "pending"
      THEN [outcome EXCEPT ![i] = Fulfilled] ELSE outcome

\* Promise.all resolves when both tasks have: the callback returns signature.
ResolveAll(i, senderDone, watcherDone) ==
    IF senderDone /\ watcherDone /\ outcome[i].status = "pending"
      THEN [outcome EXCEPT ![i] = Fulfilled] ELSE outcome

----------------------------------------------------------------------------
(* The reliable sender: sendTransactionWithRetry.                           *)

\* Broadcast attempts made or under way, over the batch.
RECURSIVE Attempts(_)
Attempts(k) ==
    IF k = 0 THEN 0
    ELSE Attempts(k - 1) + retry[k] + (IF spc[k] = "sending" THEN 1 ELSE 0)

\* The attempts a behaviour explores, over the whole batch: the larger the
\* batch, the fewer.
AttemptBound == SendBound \div n

\* Faulty variant of LoopHead: the bound itself still counts as fresh.
LoopHeadInclusive(h, r) ==
    IF h <= lastValidBlockHeight /\ r < maxRetries THEN "sending"
    ELSE IF h > lastValidBlockHeight THEN "expired"
    ELSE "exhausted"

\* Faulty variant of LoopHead: the test after the loop is missing.
LoopHeadNeverExpires(h, r) ==
    IF h < lastValidBlockHeight /\ r < maxRetries THEN "sending" ELSE "exhausted"

\* Faulty variant of LoopHead: the retry budget is not looked at.
LoopHeadUnbudgeted(h, r) ==
    IF h < lastValidBlockHeight THEN "sending" ELSE "expired"

\* The loop head and the test after the loop, with blockHeight = h and
\* retry = r: broadcast, throw BLOCK_HEIGHT_EXCEEDED, or return.
LoopHead(h, r) ==
    IF h < lastValidBlockHeight /\ r < maxRetries THEN "sending"
    ELSE IF h >= lastValidBlockHeight THEN "expired"
    ELSE "exhausted"

\* The sender of the "abort" generation stops at its next resumption once its
\* signal is aborted, and returns.
Cancelled(i) == version = "abort" /\ aborted[ControllerOf(i)]

\* The sender ends in state s (returned or threw) and the coordinator reacts.
SenderEnds(i, s) ==
    /\ spc' = [spc EXCEPT ![i] = s]
    /\ IF s \in SenderThrew
         THEN /\ outcome' = RejectAll(i, s)
              /\ aborted' = CatchAbort(i, aborted)
         ELSE /\ outcome' = ResolveAll(i, TRUE, wst[i] = "ok")
              /\ UNCHANGED aborted

\* The sender is resumed while its signal is aborted.
SenderCancelled(i) ==
    /\ spc[i] \in {"reading", "sending"}
    /\ Cancelled(i)
    /\ SenderEnds(i, "cancelled")
    /\ UNCHANGED <<others, config, phase, raised, instructions, simRes, simulationErrors,
                   ledger, built, retry, wst, results, hist>>

\* getBlockHeight (the first one, or the one that follows the sleep of
\* sendTransactionInterval) answers the ledger's height, or raises; the loop
\* head is evaluated at once and the next broadcast, if any, is issued.
ReadHeight(i, ok) ==
    /\ spc[i] = "reading"
    /\ ~Cancelled(i)
    /\ IF ok
         THEN LET next == LoopHead(blockHeight, retry[i])
              IN  /\ IF next = "sending"
                    THEN /\ Attempts(n) < AttemptBound
                         /\ spc' = [spc EXCEPT ![i] = "sending"]
                         /\ UNCHANGED <<outcome, aborted>>
                    ELSE SenderEnds(i, next)
         ELSE SenderEnds(i, "rpcError")
    /\ UNCHANGED <<others, config, phase, raised, instructions, simRes, simulationErrors,
                   ledger, built, retry, wst, results, hist>>

\* What sendRawTransaction can answer.
SendAnswers == {"ok", "alreadyProcessed", "blockhashNotFound", "fatal"}

\* The loop body after sendRawTransaction answered a: where the sender goes.
\* An acknowledged broadcast and 'Blockhash not found' both count one retry,
\* sleep and read the height again; 'already processed' returns; anything
\* else is rethrown.
SendCatch(a) ==
    CASE a = "ok" -> "reading"
      [] a = "blockhashNotFound" -> "reading"
      [] a = "alreadyProcessed" -> "alreadyProcessed"
      [] OTHER -> "sendError"

\* The history of the sender's answers: "bnfOnly" while every answer was
\* 'Blockhash not found', "bnf3ThenOk" once exactly three of them were followed
\* by an acknowledged broadcast, "other" else.
Answered(h, r, a) ==
    IF ~Observed THEN h
    ELSE IF h = "bnfOnly" /\ a = "blockhashNotFound" THEN "bnfOnly"
    ELSE IF h = "bnfOnly" /\ a = "ok" /\ r = 3 THEN "bnf3ThenOk"
    ELSE IF h = "bnf3ThenOk" THEN h
    ELSE "other"

SendReturns(i, a) ==
    /\ spc[i] = "sending"
    /\ ~Cancelled(i)
    /\ LET next == SendCatch(a)
       IN  IF next = "reading"
             THEN /\ spc' = [spc EXCEPT ![i] = "reading"]
                  /\ retry' = [retry EXCEPT ![i] = @ + 1]
                  /\ answers' = Answered(answers, retry[i], a)
                  /\ UNCHANGED <<outcome, aborted>>
             ELSE /\ SenderEnds(i, next)
                  /\ UNCHANGED <<retry, answers>>
    /\ UNCHANGED <<others, config, phase, raised, instructions, simRes, simulationErrors,
                   ledger, built, wst, results, simFailed, elapsed>>

----------------------------------------------------------------------------
(* The confirmation watcher: confirmTransactionWithTimeout.                 *)

\* What confirmTransaction can do: answer with no error, answer with
\* value.err set, or raise.
ConfirmAnswers == {"ok", "err", "raise"}

\* The watcher's result for answer a.
ConfirmResult(a) ==
    CASE a = "ok" -> "ok"
      [] a = "err" -> "failed"
      [] OTHER -> "raised"

\* The watcher of the "abort" generation is handed the controller itself and
\* aborts it when it has seen the confirmation.
WatcherAbortOnSuccess(i, ab) ==
    IF version = "abort" THEN [ab EXCEPT ![ControllerOf(i)] = TRUE] ELSE ab

\* The watcher ends in state w and the coordinator reacts.
WatcherEnds(i, w) ==
    /\ wst' = [wst EXCEPT ![i] = w]
    /\ IF w = "ok"
         THEN /\ outcome' = ResolveAll(i, spc[i] \in SenderReturned, TRUE)
              /\ aborted' = WatcherAbortOnSuccess(i, aborted)
         ELSE /\ outcome' = RejectAll(i, w)
              /\ aborted' = CatchAbort(i, WatcherCatchAbort(i, aborted))

ConfirmReturns(i, a) ==
    /\ wst[i] = "pending"
    /\ ~Cancelled(i)
    /\ WatcherEnds(i, ConfirmResult(a))
    /\ UNCHANGED <<others, config, phase, raised, instructions, simRes, simulationErrors,
                   ledger, built, spc, retry, results, hist>>

\* The watcher's confirmTransaction call is handed the signal and ends when
\* it is aborted.
WatcherCancelled(i) ==
    /\ wst[i] = "pending"
    /\ Cancelled(i)
    /\ WatcherEnds(i, "cancelled")
    /\ UNCHANGED <<others, config, phase, raised, instructions, simRes, simulationErrors,
                   ledger, built, spc, retry, results, hist>>

\* Does the watcher enforce options.confirmationTimeout?  The "inclass"
\* method awaits confirmTransaction and nothing else.
EnforcesTimeout == version = "abort"

\* confirmationTimeout milliseconds have passed since the watcher started and
\* confirmTransaction has not answered.
TimeoutElapses(i) ==
    /\ wst[i] = "pending"
    /\ ~elapsed
    /\ ~Cancelled(i)
    /\ elapsed' = Observed
    /\ IF EnforcesTimeout
         THEN WatcherEnds(i, "timedOut")
         ELSE UNCHANGED <<wst, outcome, aborted>>
    /\ UNCHANGED <<others, config, phase, raised, instructions, simRes, simulationErrors,
                   ledger, built, spc, retry, results, simFailed, answers>>

----------------------------------------------------------------------------
(* execute after Promise.allSettled.                                        *)

\* Faulty variants of AssertLengths: no assertion at all, and an assertion
\* that always fails.
AlwaysHolds(k) == TRUE
NeverHolds(k) == FALSE

\* The two assertions on results.length ("abort" generation only).
AssertLengths(k) ==
    version = "abort" => (k = n /\ k = Len(transactions))

\* results.map: each settled result with its request and its transaction.
ResultsWithAdditionalData ==
    [i \in Launched |->
       [status |-> outcome[i].status,
        reason |-> outcome[i].reason,
        transactionData |-> IF version = "abort" THEN i ELSE 0,
        transaction |-> IF version = "abort" THEN transactions[i] ELSE <<>>]]

\* Every promise has settled: execute asserts and returns.
Settle ==
    /\ phase = "running"
    /\ \A i \in Launched : outcome[i].status # "pending"
    /\ IF AssertLengths(Len(signedTransactions))
         THEN /\ phase' = "returned"
              /\ results' = ResultsWithAdditionalData
              /\ UNCHANGED raised
         ELSE /\ Raise("assert")
              /\ UNCHANGED results
    /\ UNCHANGED <<others, config, instructions, simRes, simulationErrors, ledger, built,
                   coord, hist>>

----------------------------------------------------------------------------

Next ==
    \/ Start
    \/ \E ok \in BOOLEAN : SimBlockhash(ok)
    \/ \E ok \in BOOLEAN : SimSign(ok)
    \/ \E i \in Requests, r \in SimAnswers : SimulateReturns(i, r)
    \/ SimulateDone
    \/ \E i \in Requests : Inject(i)
    \/ \E ok \in BOOLEAN : FetchBlockhash(ok)
    \/ \E a \in SignerAnswers : SignAll(a)
    \/ Tick
    \/ \E i \in Launched, ok \in BOOLEAN : ReadHeight(i, ok)
    \/ \E i \in Launched, a \in SendAnswers : SendReturns(i, a)
    \/ \E i \in Launched : SenderCancelled(i)
    \/ \E i \in Launched, a \in ConfirmAnswers : ConfirmReturns(i, a)
    \/ \E i \in Launched : WatcherCancelled(i)
    \/ \E i \in Launched : TimeoutElapses(i)
    \/ Settle

Spec == Init /\ [][Next]_vars

\* What the environment owes an execute call: every call to the ledger and
\* to the signer answers or raises (simulation, freshness window, signing,
\* getBlockHeight, sendRawTransaction, confirmTransaction), the ledger's
\* height goes on to lastValidBlockHeight, and the runtime resumes every
\* continuation that is ready (execute's own steps, a task whose signal is
\* aborted). That confirmationTimeout elapses is owed by nobody.
Fairness ==
    /\ WF_vars(Start \/ SimulateDone \/ Settle)
    /\ WF_vars(\E ok \in BOOLEAN : SimBlockhash(ok) \/ SimSign(ok) \/ FetchBlockhash(ok))
    /\ WF_vars(\E i \in Requests, r \in SimAnswers : SimulateReturns(i, r))
    /\ WF_vars(\E i \in Requests : Inject(i))
    /\ WF_vars(\E a \in SignerAnswers : SignAll(a))
    /\ WF_vars(Tick)
    /\ WF_vars(\E i \in Launched, ok \in BOOLEAN : ReadHeight(i, ok))
    /\ WF_vars(\E i \in Launched, a \in SendAnswers : SendReturns(i, a))
    /\ WF_vars(\E i \in Launched, a \in ConfirmAnswers : ConfirmReturns(i, a))
    /\ WF_vars(\E i \in Launched : SenderCancelled(i) \/ WatcherCancelled(i))

\* The pipeline under those assumptions.
LiveSpec == Spec /\ Fairness

----------------------------------------------------------------------------
(* The batch pipeline at rest, while one of the separate studies runs.      *)

PipelineParked ==
    /\ version = "abort"
    /\ n = 1
    /\ signAllTransactions = TRUE
    /\ enablePriorityFee = TRUE
    /\ maxRetries = MAX_SAFE_INTEGER
    /\ phase = "start"
    /\ raised = "none"
    /\ instructions = [i \in 1..1 |-> <<"ix">>]
    /\ simRes = [i \in 1..1 |-> "none"]
    /\ simulationErrors = <<>>
    /\ blockHeight = 0
    /\ lastValidBlockHeight = 0
    /\ blockhash = 0
    /\ transactions = <<>>
    /\ signedTransactions = <<>>
    /\ spc = [i \in 1..1 |-> "idle"]
    /\ retry = [i \in 1..1 |-> 0]
    /\ wst = [i \in 1..1 |-> "idle"]
    /\ aborted = [i \in 1..1 |-> FALSE]
    /\ outcome = [i \in 1..1 |-> Pending]
    /\ results = <<>>
    /\ simFailed = FALSE
    /\ answers = "bnfOnly"
    /\ elapsed = FALSE

pipeline == <<config, phase, raised, instructions, simRes, simulationErrors,
              ledger, built, coord, results, hist>>

----------------------------------------------------------------------------
(* Errors and their classification: parseSolanaSendTransactionError.        *)
(* A message is a sequence of pieces of text; includes() is the search for  *)
(* a contiguous run of pieces.                                              *)

Includes(msg, pat) ==
    \E k \in 0..(Len(msg) - Len(pat)) : SubSeq(msg, k + 1, k + Len(pat)) = pat

NoError == [name |-> "none", message |-> <<>>]
Error(msg) == [name |-> "Error", message |-> msg]

\* The three insufficient-balance patterns and the error that replaces them.
NoPriorCredit ==
    <<"Attempt to debit an account but found no record of a prior credit.">>
CustomProgramError0x1 == <<"custom program error: 0x", "1">>
InsufficientFunds == <<"insufficient funds">>
NotEnoughSol == Error(<<"An account does not have enough SOL for transaction">>)

\* The hexadecimal digits that follow 'custom program error: 0x' in msg.
CodeOf(msg) ==
    IF \E k \in 1..Len(msg) : msg[k] = "custom program error: 0x"
      THEN LET k == CHOOSE j \in 1..Len(msg) :
                       /\ msg[j] = "custom program error: 0x"
                       /\ \A l \in 1..(j - 1) : msg[l] # "custom program error: 0x"
           IN  SubSeq(msg, k + 1, Len(msg))
      ELSE <<>>

\* translateError of @coral-xyz/anchor with the payload's error map idl: an
\* error whose custom code the map knows becomes a ProgramError, which
\* carries the map's text in msg and an empty message; any other error is
\* returned as it is.
TranslateError(e, idl) ==
    IF CodeOf(e.message) \in idl
      THEN [name |-> "ProgramError", message |-> <<>>]
      ELSE e

\* Faulty variant of ParseSolanaSendTransactionError: translate only.
TranslateOnly(e, idl) == TranslateError(e, idl)

ParseSolanaSendTransactionError(e, idl) ==
    LET translatedError == TranslateError(e, idl)
        isInsufficientBalance ==
            \/ Includes(translatedError.message, NoPriorCredit)
            \/ Includes(translatedError.message, CustomProgramError0x1)
            \/ Includes(translatedError.message, InsufficientFunds)
    IN  IF isInsufficientBalance THEN NotEnoughSol ELSE translatedError

\* The errors the RPC node, the wallet and the sender raise in the study.
RawErrors ==
    { Error(<<"Transaction simulation failed:">> \o NoPriorCredit),
      Error(<<"failed to send transaction:", "custom program error: 0x", "1">>),
      Error(<<"custom program error: 0x", "1", "7", "7", "0">>),
      Error(<<"custom program error: 0x", "0">>),
      Error(<<"Transfer:", "insufficient funds", "for rent">>),
      Error(<<"Blockhash not found">>),
      Error(<<"Block height exceeded before confirmation">>),
      Error(<<"User rejected the request.">>) }

\* The error maps of the study: none, or one that knows code 0x1770.
ErrorMaps == { {}, { <<"1", "7", "7", "0">> } }

----------------------------------------------------------------------------
(* TransactionPayload.execute: one transaction from simulation to outcome.  *)
(* The race of sender and watcher is the one of the pipeline above; here it *)
(* is followed by its broadcasts and its end only.                          *)

\* options.enablePriorityFee as the caller may pass it.
EnablePriorityFeeOptions == {"omitted", "true", "false"}

\* Faulty variant: an omitted option counts as false.
OmittedIsFalse(option) == option = "true"

\* options?.enablePriorityFee ?? true
EnablePriorityFee(option) == IF option = "omitted" THEN TRUE ELSE option = "true"

\* The instruction lists of the request: without budget instructions, or with
\* a compute-unit price of the caller's.
CallerInstructions == { <<"ix">>, <<"SetComputeUnitPrice", "ix">> }

MAX_COMPUTE_UNIT == 1400000
COMPUTE_BUDGET_PROGRAM_COMPUTE_UNIT == 400

\* The headroom execute puts on the simulated consumption, as units added and
\* tenths multiplied by: (unitsConsumed + 400) * 1.1 in the batch,
\* unitsConsumed * 1.2 in the single payload, unitsConsumed + 300 in the
\* in-class generation.
Margins ==
    { [plus |-> COMPUTE_BUDGET_PROGRAM_COMPUTE_UNIT, tenths |-> 11],
      [plus |-> 0, tenths |-> 12],
      [plus |-> 300, tenths |-> 10] }

\* What a simulation may report as unitsConsumed: from one unit to the most a
\* transaction may consume.
UnitsConsumed == {1, 200000, 1166668, 1272329, 1400000}

\* const computeUnit = unitsConsumed ? Math.floor(<headroom>) : MAX_COMPUTE_UNIT
ComputeUnit(margin, unitsConsumed) ==
    IF unitsConsumed # 0
      THEN ((unitsConsumed + margin.plus) * margin.tenths) \div 10
      ELSE MAX_COMPUTE_UNIT

InitSingle ==
    /\ PipelineParked
    /\ single \in { [SingleIdle EXCEPT !.pc = "start", !.sign = sg, !.option = o,
                                       !.idl = idl, !.instructions = l,
                                       !.margin = mg] :
                      sg \in BOOLEAN, o \in EnablePriorityFeeOptions,
                      idl \in ErrorMaps, l \in CallerInstructions,
                      mg \in Margins }
    /\ construction = ConstructionIdle
    /\ identical = IdenticalIdle
    /\ estimator = EstimatorIdle
    /\ injector = InjectorIdle
    /\ mintCache = MintCacheIdle

\* What a call answers when it does not raise.
Answer(kind) == [name |-> kind, message |-> <<>>]

\* The catch of simulate: the error is translated and rethrown.
SingleSimulateCatch(e) == TranslateError(e, single.idl)

\* The catch of execute: whatever was thrown inside its try block leaves
\* through parseSolanaSendTransactionError.
ExecuteCatch(e) == ParseSolanaSendTransactionError(e, single.idl)

\* The record of a run in which e was thrown inside execute's try block.
SingleThrows(r, e) ==
    [r EXCEPT !.pc = "raised", !.err = e, !.surfaced = ExecuteCatch(e)]

\* execute: the signing function is required (checked before the try block).
SingleStart ==
    /\ single.pc = "start"
    /\ single' =
         IF ~single.sign
           THEN [single EXCEPT
                   !.pc = "raised",
                   !.err = Error(<<"signTransaction is required to execute transaction payload.">>),
                   !.surfaced = Error(<<"signTransaction is required to execute transaction payload.">>)]
           ELSE [single EXCEPT
                   !.epf = EnablePriorityFee(single.option),
                   !.pc = IF EnablePriorityFee(single.option)
                            THEN "simBlockhash" ELSE "blockhash"]
    /\ UNCHANGED <<pipeline, mintCache, construction, identical, estimator, injector>>

\* simulate: getLatestBlockhash answers, or raises a.
SingleSimBlockhash(a) ==
    /\ single.pc = "simBlockhash"
    /\ single' =
         IF a = Answer("ok")
           THEN [single EXCEPT !.pc = "simulating"]
           ELSE SingleThrows([single EXCEPT !.simFailed = TRUE], SingleSimulateCatch(a))
    /\ UNCHANGED <<pipeline, mintCache, construction, identical, estimator, injector>>

\* simulate: simulateTransaction answers a result (with unitsConsumed,
\* without, or with value.err set), which simulate returns as it is, or
\* raises a.
SingleSimulate(a, u) ==
    /\ single.pc = "simulating"
    /\ single' =
         IF a.name \in {"units", "noUnits", "execErr"}
           THEN [single EXCEPT !.pc = "fee", !.simCalls = @ + 1,
                               !.simFailed = (a.name = "execErr"),
                               !.unitsConsumed = IF a.name = "units" THEN u ELSE 0]
           ELSE SingleThrows([single EXCEPT !.simCalls = @ + 1, !.simFailed = TRUE],
                             SingleSimulateCatch(a))
    /\ UNCHANGED <<pipeline, mintCache, construction, identical, estimator, injector>>

\* getPriorityFeeInstructions: a limit and a price instruction, each only
\* when the request holds none; the request's list is not touched.
GetPriorityFeeInstructions(list) ==
    (IF HasInstruction(list, "SetComputeUnitLimit")
       THEN <<>> ELSE <<"SetComputeUnitLimit">>)
    \o (IF HasInstruction(list, "SetComputeUnitPrice")
          THEN <<>> ELSE <<"SetComputeUnitPrice">>)

\* execute: the budget instructions are computed. The price comes from
\* calculatePriorityFee, which fetches the recent fee samples unless an exact
\* fee was given (the estimator falls back instead of raising).
SingleFee(exact) ==
    /\ single.pc = "fee"
    /\ single' =
         [single EXCEPT
            !.pc = "blockhash",
            !.computeUnit = ComputeUnit(single.margin, single.unitsConsumed),
            !.priorityFeeInstructions = GetPriorityFeeInstructions(single.instructions),
            !.feeFetches =
               IF ~exact /\ ~HasInstruction(single.instructions, "SetComputeUnitPrice")
                 THEN @ + 1 ELSE @]
    /\ UNCHANGED <<pipeline, mintCache, construction, identical, estimator, injector>>

\* execute: getLatestBlockhash answers, or raises a.
SingleBlockhash(a) ==
    /\ single.pc = "blockhash"
    /\ single' =
         IF a = Answer("ok")
           THEN [single EXCEPT
                   !.pc = "signing",
                   !.transaction = single.priorityFeeInstructions \o single.instructions]
           ELSE SingleThrows(single, a)
    /\ UNCHANGED <<pipeline, mintCache, construction, identical, estimator, injector>>

\* execute: the signing function answers, or raises a.
SingleSign(a) ==
    /\ single.pc = "signing"
    /\ single' = IF a = Answer("ok")
                   THEN [single EXCEPT !.pc = "running", !.signCalls = @ + 1]
                   ELSE SingleThrows([single EXCEPT !.signCalls = @ + 1], a)
    /\ UNCHANGED <<pipeline, mintCache, construction, identical, estimator, injector>>

\* The sender issues one sendRawTransaction.
SingleBroadcast ==
    /\ single.pc = "running"
    /\ single.sends < SendBound
    /\ single' = [single EXCEPT !.sends = @ + 1]
    /\ UNCHANGED <<pipeline, mintCache, construction, identical, estimator, injector>>

\* Promise.all settles: the signature once a broadcast was confirmed, or the
\* error a that the sender or the watcher threw.
SingleRunEnds(a) ==
    /\ single.pc = "running"
    /\ IF a = Answer("signature")
         THEN /\ single.sends >= 1
              /\ single' = [single EXCEPT !.pc = "returned"]
         ELSE single' = SingleThrows(single, a)
    /\ UNCHANGED <<pipeline, mintCache, construction, identical, estimator, injector>>

NextSingle ==
    \/ SingleStart
    \/ \E a \in {Answer("ok")} \cup RawErrors : SingleSimBlockhash(a)
    \/ \E a \in {Answer("units"), Answer("noUnits"), Answer("execErr")} \cup RawErrors,
          u \in UnitsConsumed : SingleSimulate(a, u)
    \/ \E exact \in BOOLEAN : SingleFee(exact)
    \/ \E a \in {Answer("ok")} \cup RawErrors : SingleBlockhash(a)
    \/ \E a \in {Answer("ok")} \cup RawErrors : SingleSign(a)
    \/ SingleBroadcast
    \/ \E a \in {Answer("signature")} \cup RawErrors : SingleRunEnds(a)

SpecSingle == InitSingle /\ [][NextSingle]_vars

----------------------------------------------------------------------------
(* Construction of a payload, single or batch.                              *)

MaxInstructions == 2

\* A request as the constructors look at it: how many instructions it holds
\* and whether its fee payer is there.
RequestShapes == [instructions : 0..MaxInstructions, feePayer : BOOLEAN]

RequestLists == UNION { [1..k -> RequestShapes] : k \in 0..MaxBatch }

InitConstruction ==
    /\ PipelineParked
    /\ single = SingleIdle
    /\ construction \in
         { [ConstructionIdle EXCEPT !.kind = "single", !.requests = <<r>>] :
             r \in RequestShapes }
         \cup { [ConstructionIdle EXCEPT !.kind = "batch", !.requests = rs] :
                  rs \in RequestLists }
    /\ identical = IdenticalIdle
    /\ estimator = EstimatorIdle
    /\ injector = InjectorIdle
    /\ mintCache = MintCacheIdle

\* validateTransactionData: the error it throws, or "none".
ValidateTransactionData(reqs) ==
    IF Len(reqs) = 0 THEN "At least one transaction is required"
    ELSE LET bad == { i \in 1..Len(reqs) :
                        reqs[i].instructions = 0 \/ ~reqs[i].feePayer }
         IN  IF bad = {} THEN "none"
             ELSE LET i == CHOOSE j \in bad : \A k \in bad : j <= k
                  IN  IF reqs[i].instructions = 0
                        THEN "No instructions provided"
                        ELSE "Fee payer is required"

\* new MultiTransactionPayload(...): the constructor validates.
ConstructBatch ==
    /\ construction.kind = "batch"
    /\ construction.result = "idle"
    /\ construction' =
         [construction EXCEPT !.result =
            IF ValidateTransactionData(construction.requests) = "none"
              THEN "constructed"
              ELSE ValidateTransactionData(construction.requests)]
    /\ UNCHANGED <<pipeline, mintCache, single, identical, estimator, injector>>

\* new TransactionPayload(...): the constructor body is empty.
ConstructSingle ==
    /\ construction.kind = "single"
    /\ construction.result = "idle"
    /\ construction' = [construction EXCEPT !.result = "constructed"]
    /\ UNCHANGED <<pipeline, mintCache, single, identical, estimator, injector>>

\* The first network call of a constructed payload (getLatestBlockhash of
\* simulate or execute).
FirstNetworkCall ==
    /\ construction.result = "constructed"
    /\ construction.rpc = 0
    /\ construction' = [construction EXCEPT !.rpc = 1]
    /\ UNCHANGED <<pipeline, mintCache, single, identical, estimator, injector>>

NextConstruction == ConstructBatch \/ ConstructSingle \/ FirstNetworkCall

SpecConstruction == InitConstruction /\ [][NextConstruction]_vars

----------------------------------------------------------------------------
(* A batch of five transfer requests of one fee payer and one signer.       *)

BatchOfFive == 5

\* What a request asks for: the instructions and the fee payer are the same
\* in every request of the batch or differ.
Transfers == {"transfer 0.05 SOL", "transfer 0.1 SOL"}

\* The prices getRecentPriorityFee may answer for one request.
FeeEstimates == {1000, 5000}

\* What the signing function returns: the transactions it was handed, signed
\* in place, or new transaction objects that carry the signatures (a wallet
\* that serialises the transactions and deserialises the signed ones).
SignerModes == {"inPlace", "newObjects"}

InitIdentical ==
    /\ PipelineParked
    /\ single = SingleIdle
    /\ construction = ConstructionIdle
    /\ identical \in { [IdenticalIdle EXCEPT !.pc = "start", !.requests = rs,
                                            !.signer = mode, !.signers = given] :
                         rs \in [1..BatchOfFive -> Transfers],
                         mode \in SignerModes, given \in BOOLEAN }
    /\ estimator = EstimatorIdle
    /\ injector = InjectorIdle
    /\ mintCache = MintCacheIdle

\* The message of a compiled transaction: its instructions (the budget
\* instructions with their price first), its fee payer and the blockhash.
CompileMessage(request, price, bh) ==
    [instructions |-> <<"SetComputeUnitLimit", price, request>>,
     payerKey |-> "fromKeypair", recentBlockhash |-> bh]

\* transaction.sign([fromKeypair]): an ed25519 signature is a function of the
\* key and the message; two messages have the same signature only if they are
\* equal.
Sign(key, message) == [signer |-> key, over |-> message]

\* Signature slot 0 of new VersionedTransaction(message): 64 zero bytes.
DefaultSignature == [bytes |-> "zeros"]

\* buildVersionTransactions for one request: the transaction object, signed
\* by data.signers when the request has some (here the fee payer's keypair,
\* whose signature is slot 0).
BuildVersionTransaction(message, withSigners) ==
    [message |-> message,
     signatures |-> <<IF withSigners THEN Sign("fromKeypair", message)
                                      ELSE DefaultSignature>>]

\* The transaction objects execute holds after the signing function has
\* returned: the very objects when they were signed in place, else the
\* objects as buildVersionTransactions left them.
HeldAfterSigning(unsigned, signed, mode) ==
    IF mode = "inPlace" THEN signed ELSE unsigned

\* utils.bytes.bs58.encode: one string per byte sequence.
Bs58Encode(bytes) == [bs58 |-> bytes]

\* results.map: each settled result with transactions[i].
IdenticalResults ==
    [i \in 1..BatchOfFive |->
       [status |-> "fulfilled",
        value |-> Bs58Encode(identical.outcome[i][1]),
        transaction |-> identical.transactions[i]]]

\* execute up to the signing: each request gets its price, all get the one
\* blockhash, and the signing function signs every transaction.
IdenticalBuild(prices, bh) ==
    /\ identical.pc = "start"
    /\ identical' =
         [identical EXCEPT
            !.pc = "running",
            !.blockhash = bh,
            !.signatures =
               [i \in 1..BatchOfFive |->
                  Sign("fromKeypair",
                       CompileMessage(identical.requests[i], prices[i], bh))],
            !.transactions =
               LET unsigned == [i \in 1..BatchOfFive |->
                               BuildVersionTransaction(
                                   CompileMessage(identical.requests[i], prices[i], bh),
                                   identical.signers)]
                   signed == [i \in 1..BatchOfFive |->
                                [unsigned[i] EXCEPT
                                   !.signatures[1] = Sign("fromKeypair", unsigned[i].message)]]
               IN  HeldAfterSigning(unsigned, signed, identical.signer),
            !.outcome = [i \in 1..BatchOfFive |-> <<>>]]
    /\ UNCHANGED <<pipeline, mintCache, single, construction, estimator, injector>>

\* Coordinator i ends: its transaction is processed by the network, or was
\* processed already under the same signature ('already processed' ends the
\* sender quietly and the watcher sees the signature confirmed); the promise
\* resolves with the signature.
IdenticalConfirmed(i) ==
    /\ identical.pc = "running"
    /\ identical.outcome[i] = <<>>
    /\ identical' =
         [identical EXCEPT
            !.processed = @ \cup {identical.signatures[i]},
            !.outcome[i] = <<identical.signatures[i]>>]
    /\ UNCHANGED <<pipeline, mintCache, single, construction, estimator, injector>>

\* Promise.allSettled resolves.
IdenticalSettle ==
    /\ identical.pc = "running"
    /\ \A i \in 1..BatchOfFive : identical.outcome[i] # <<>>
    /\ identical' = [identical EXCEPT !.pc = "returned", !.results = IdenticalResults]
    /\ UNCHANGED <<pipeline, mintCache, single, construction, estimator, injector>>

NextIdentical ==
    \/ \E prices \in [1..BatchOfFive -> FeeEstimates], bh \in 1..2 :
          IdenticalBuild(prices, bh)
    \/ \E i \in 1..BatchOfFive : IdenticalConfirmed(i)
    \/ IdenticalSettle

SpecIdentical == InitIdentical /\ [][NextIdentical]_vars

----------------------------------------------------------------------------
(* The fee estimator: replaceNonZeroAndSortPrioritizationFeesAsc and        *)
(* getRecentPriorityFee.  Fees are micro-lamports per compute unit; the     *)
(* multipliers 0.8, 1.2 and 2.0 are kept as tenths.                         *)

MaxSamples == 3
MaxFee == 3

\* A JavaScript number as the estimator meets it: NaN, or a value.
NaN == [isNaN |-> TRUE, value |-> 0]
Number(v) == [isNaN |-> FALSE, value |-> v]

\* The prioritizationFee values of the samples.
FeeValues == {NaN} \cup { Number(v) : v \in -1..MaxFee }

\* The lists getRecentPrioritizationFees may answer: sample k comes from slot k.
SampleLists ==
    UNION { { [k \in 1..len |-> [slot |-> k, prioritizationFee |-> f[k]]] :
                f \in [1..len -> FeeValues] } : len \in 0..MaxSamples }

\* The caps calculatePriorityFee may hand over: below zero when
\* maxPriorityFeeSol is worth less than the base fee, small, between the
\* fallback fees, and above them.
Caps == {-1, 0, 1, 2, 4, 7, 1000, 3000, 30000}

PriorityLevels == {"low", "medium", "high"}

BASE_FEE_LAMPORTS == 5000
\* 1 / LAMPORTS_PER_MICRO_LAMPORT
MICRO_LAMPORTS_PER_LAMPORT == 1000000

\* options.exactPriorityFeeSol * LAMPORTS_PER_SOL: nothing, below the base
\* fee, the base fee, and above it.
ExactLamports == {0, 4999, 5000, 5001, 5007, 6000}

\* The compute-unit budgets of the study, up to MAX_COMPUTE_UNIT.
ComputeUnits == {3, 200000, 1400000}

\* options.maxPriorityFeeSol * LAMPORTS_PER_SOL: below the base fee, the base
\* fee, and above it.
MaxLamports == {3000, 4999, 5000, 5001, 5007, 6000}

InitEstimator ==
    /\ PipelineParked
    /\ single = SingleIdle
    /\ construction = ConstructionIdle
    /\ identical = IdenticalIdle
    /\ estimator \in
         { [EstimatorIdle EXCEPT !.samples = l, !.maxFeeCap = c] :
             l \in SampleLists, c \in Caps }
         \cup { [EstimatorIdle EXCEPT !.fetchRaises = TRUE, !.maxFeeCap = c] :
                  c \in Caps }
         \cup { [EstimatorIdle EXCEPT
                   !.samples = l, !.maxFeeCap = c, !.computeUnit = cu,
                   !.exactPriorityFee = [given |-> TRUE, lamports |-> x]] :
                  l \in { ll \in SampleLists : Len(ll) <= 1 }, c \in {0, 7},
                  cu \in ComputeUnits, x \in ExactLamports }
         \cup { [EstimatorIdle EXCEPT
                   !.samples = l, !.fetchRaises = raises, !.computeUnit = cu,
                   !.maxPriorityFee = [given |-> TRUE, lamports |-> x]] :
                  l \in { ll \in SampleLists : Len(ll) <= 1 }, raises \in BOOLEAN,
                  cu \in ComputeUnits, x \in MaxLamports }
    /\ injector = InjectorIdle
    /\ mintCache = MintCacheIdle

\* BigNumber(a).comparedTo(b) ?? 0
ComparedTo(a, b) ==
    IF a.isNaN \/ b.isNaN THEN 0
    ELSE IF a.value < b.value THEN -1
    ELSE IF a.value > b.value THEN 1
    ELSE 0

\* Array.prototype.filter with the predicate of the source.
RECURSIVE FilterPositive(_)
FilterPositive(list) ==
    IF list = <<>> THEN <<>>
    ELSE LET fee == Head(list).prioritizationFee
         IN  IF ~fee.isNaN /\ fee.value > 0
               THEN <<Head(list)>> \o FilterPositive(Tail(list))
               ELSE FilterPositive(Tail(list))

\* One step of a stable sort: x goes behind every element that does not
\* compare greater than it.
RECURSIVE InsertSorted(_, _)
InsertSorted(x, list) ==
    IF list = <<>> THEN <<x>>
    ELSE IF ComparedTo(Head(list).prioritizationFee, x.prioritizationFee) <= 0
           THEN <<Head(list)>> \o InsertSorted(x, Tail(list))
           ELSE <<x>> \o list

\* Array.prototype.sort with the comparator of the source (the sort is stable).
RECURSIVE SortAsc(_)
SortAsc(list) ==
    IF list = <<>> THEN <<>>
    ELSE InsertSorted(list[Len(list)], SortAsc(SubSeq(list, 1, Len(list) - 1)))

\* Faulty variant: the samples are filtered but left in the order of arrival.
FilterOnly(list) == FilterPositive(list)

ReplaceNonZeroAndSortPrioritizationFeesAsc(list) == SortAsc(FilterPositive(list))

\* Faulty variant: the upper middle element whatever the length.
UpperMiddle(sortedNonZeroList) ==
    IF Len(sortedNonZeroList) > 0
      THEN sortedNonZeroList[(Len(sortedNonZeroList) \div 2) + 1].prioritizationFee.value
      ELSE 0

\* medianFee (midIndex counts from 0 in the source, from 1 here).
MedianFee(sortedNonZeroList) ==
    IF Len(sortedNonZeroList) > 0
      THEN LET midIndex == Len(sortedNonZeroList) \div 2
           IN  IF Len(sortedNonZeroList) % 2 # 0
                 THEN sortedNonZeroList[midIndex + 1].prioritizationFee.value
                 ELSE (sortedNonZeroList[midIndex].prioritizationFee.value
                        + sortedNonZeroList[midIndex + 1].prioritizationFee.value) \div 2
      ELSE 0

\* Faulty variant: the multipliers of low and high exchanged.
MultipliersExchanged(priorityLevel) ==
    CASE priorityLevel = "low" -> 20
      [] priorityLevel = "medium" -> 12
      [] priorityLevel = "high" -> 8

\* multipliers[priorityLevel], in tenths.
Multipliers(priorityLevel) ==
    CASE priorityLevel = "low" -> 8
      [] priorityLevel = "medium" -> 12
      [] priorityLevel = "high" -> 20

\* medianFee.times(multiplier).decimalPlaces(0, ROUND_CEIL), medianFee >= 0.
CalculatedFee(medianFee, priorityLevel) ==
    (medianFee * Multipliers(priorityLevel) + 9) \div 10

\* Faulty variant: the fallback of the medium level for every level.
FallbackMedium(priorityLevel) == 5000

\* fallbackFees[priorityLevel]
FallbackFees(priorityLevel) ==
    CASE priorityLevel = "low" -> 1000
      [] priorityLevel = "medium" -> 5000
      [] priorityLevel = "high" -> 25000

\* Faulty variant: the first argument, uncapped.
Uncapped(a, b) == a

\* BigNumber.min(a, b)
BigNumberMin(a, b) == IF a <= b THEN a ELSE b

\* getRecentPriorityFee: what one call answers, and on which path.
GetRecentPriorityFee(samples, fetchRaises, priorityLevel, maxFeeCap) ==
    IF fetchRaises
      THEN [path |-> "fallback", medianFee |-> 0,
            fee |-> BigNumberMin(FallbackFees(priorityLevel), maxFeeCap)]
      ELSE LET sortedNonZeroList == ReplaceNonZeroAndSortPrioritizationFeesAsc(samples)
               medianFee == MedianFee(sortedNonZeroList)
           IN  [path |-> "normal", medianFee |-> medianFee,
                fee |-> BigNumberMin(CalculatedFee(medianFee, priorityLevel), maxFeeCap)]

\* A call of getRecentPriorityFee for one level.
Estimate(priorityLevel) ==
    /\ priorityLevel \notin DOMAIN estimator.answer
    /\ estimator' =
         [estimator EXCEPT !.answer =
            [l \in DOMAIN estimator.answer \cup {priorityLevel} |->
               IF l = priorityLevel
                 THEN GetRecentPriorityFee(estimator.samples, estimator.fetchRaises,
                                           priorityLevel, estimator.maxFeeCap)
                 ELSE estimator.answer[l]]]
    /\ UNCHANGED <<pipeline, mintCache, single, construction, identical, injector>>

\* replaceNonZeroAndSortPrioritizationFeesAsc applied to the samples, and to
\* its own result.
FilterAndSort ==
    /\ ~estimator.fetchRaises
    /\ ~estimator.applied
    /\ estimator' =
         [estimator EXCEPT
            !.applied = TRUE,
            !.sorted = ReplaceNonZeroAndSortPrioritizationFeesAsc(estimator.samples),
            !.resorted = ReplaceNonZeroAndSortPrioritizationFeesAsc(
                            ReplaceNonZeroAndSortPrioritizationFeesAsc(estimator.samples))]
    /\ UNCHANGED <<pipeline, mintCache, single, construction, identical, injector>>

\* toFixed(0, BigNumber.ROUND_DOWN) of a / b, b > 0: towards zero.
RoundDown(a, b) == IF a >= 0 THEN a \div b ELSE -((-a) \div b)

\* Faulty variant: an exact fee above the base fee is rounded up.
ExactPriceRoundedUp(lamports, computeUnit) ==
    -RoundDown(-((lamports - BASE_FEE_LAMPORTS) * MICRO_LAMPORTS_PER_LAMPORT) - (computeUnit - 1),
               computeUnit)

\* The price for an exact fee: (fee in lamports - base fee) / computeUnit /
\* LAMPORTS_PER_MICRO_LAMPORT, rounded down.
ExactPrice(lamports, computeUnit) ==
    RoundDown((lamports - BASE_FEE_LAMPORTS) * MICRO_LAMPORTS_PER_LAMPORT, computeUnit)

\* Faulty variant of MaxPriorityFeePerCU: the cap is rounded up.
MaxPriorityFeePerCURoundedUp(lamports, computeUnit) ==
    -RoundDown(-((lamports - BASE_FEE_LAMPORTS) * MICRO_LAMPORTS_PER_LAMPORT) - (computeUnit - 1),
               computeUnit)

\* maxPriorityFeePerCU: (maxPriorityFeeSol in lamports - base fee) /
\* computeUnit / LAMPORTS_PER_MICRO_LAMPORT. The fees it is compared with are
\* whole numbers of zero or above and the lesser is then rounded down, so the
\* cap is taken rounded down.
MaxPriorityFeePerCU(lamports, computeUnit) ==
    RoundDown((lamports - BASE_FEE_LAMPORTS) * MICRO_LAMPORTS_PER_LAMPORT, computeUnit)

\* calculatePriorityFee with options.priorityLevel omitted: the price of a
\* truthy exactPriorityFeeSol, else what getRecentPriorityFee answers for the
\* medium level under the cap of maxPriorityFeeSol.
CalculatePriorityFee ==
    /\ estimator.price = <<>>
    /\ estimator' =
         IF estimator.exactPriorityFee.given /\ estimator.exactPriorityFee.lamports # 0
           THEN [estimator EXCEPT
                   !.price = <<ExactPrice(estimator.exactPriorityFee.lamports,
                                          estimator.computeUnit)>>]
           ELSE LET maxPriorityFeePerCU ==
                        IF estimator.maxPriorityFee.given
                          THEN MaxPriorityFeePerCU(estimator.maxPriorityFee.lamports,
                                                   estimator.computeUnit)
                          ELSE estimator.maxFeeCap
                IN  [estimator EXCEPT
                       !.fetches = @ + 1,
                       !.price = <<GetRecentPriorityFee(estimator.samples,
                                                        estimator.fetchRaises, "medium",
                                                        maxPriorityFeePerCU).fee>>]
    /\ UNCHANGED <<pipeline, mintCache, single, construction, identical, injector>>

NextEstimator ==
    \/ \E priorityLevel \in PriorityLevels : Estimate(priorityLevel)
    \/ FilterAndSort
    \/ CalculatePriorityFee

SpecEstimator == InitEstimator /\ [][NextEstimator]_vars

----------------------------------------------------------------------------
(* The budget injector run on one instruction list: one run after the      *)
(* other, or a run begun while another is suspended at its await of         *)
(* calculatePriorityFee (two execute calls on one payload, or two requests  *)
(* of a batch that share their instruction list).                           *)

MaxList == 4
MaxRuns == 2

InstructionKinds == {"ix", "SetComputeUnitLimit", "SetComputeUnitPrice"}

InstructionLists == UNION { [1..len -> InstructionKinds] : len \in 0..MaxList }

InitInjector ==
    /\ PipelineParked
    /\ single = SingleIdle
    /\ construction = ConstructionIdle
    /\ identical = IdenticalIdle
    /\ estimator = EstimatorIdle
    /\ injector \in { [InjectorIdle EXCEPT !.pc = "idle", !.initial = l,
                                          !.instructions = l] :
                        l \in InstructionLists }
    /\ mintCache = MintCacheIdle

\* A run has reached its end.
InjectorDone(inj, list) ==
    [inj EXCEPT !.instructions = list,
                !.first = IF inj.runs = 0 THEN list ELSE @,
                !.runs = @ + 1]

\* addPriorityFeeInstructions up to its await: both tests are made on the
\* list as it is, and the limit is put in front when there is none. A run
\* whose test found a price instruction has nothing to await and ends; any
\* other is suspended, bound to put a price in front when it resumes.
InjectorBegin ==
    /\ injector.pc = "idle"
    /\ injector.runs + injector.suspended < MaxRuns
    /\ LET hasComputeUnitLimitInstruction ==
               HasInstruction(injector.instructions, "SetComputeUnitLimit")
           hasComputeUnitPriceInstruction ==
               HasInstruction(injector.instructions, "SetComputeUnitPrice")
           list == IF hasComputeUnitLimitInstruction THEN injector.instructions
                   ELSE <<"SetComputeUnitLimit">> \o injector.instructions
           met == [injector EXCEPT !.overlapped = @ \/ injector.suspended > 0]
       IN  injector' =
             IF hasComputeUnitPriceInstruction
               THEN InjectorDone(met, list)
               ELSE [met EXCEPT !.instructions = list, !.suspended = @ + 1]
    /\ UNCHANGED <<pipeline, mintCache, single, construction, identical, estimator>>

\* addPriorityFeeInstructions from calculatePriorityFee's answer to its end:
\* the price is put in front, the test having found none.
InjectorEnd ==
    /\ injector.suspended > 0
    /\ injector' =
         InjectorDone([injector EXCEPT !.suspended = @ - 1],
                      <<"SetComputeUnitPrice">> \o injector.instructions)
    /\ UNCHANGED <<pipeline, mintCache, single, construction, identical, estimator>>

NextInjector == InjectorBegin \/ InjectorEnd

SpecInjector == InitInjector /\ [][NextInjector]_vars

----------------------------------------------------------------------------
(* getMintDecimals and its module-level cache mintToDecimalsMap. The calls  *)
(* are asynchronous: a call that misses the cache is suspended at           *)
(* getTokenSupply, and other calls run meanwhile.                           *)

\* Most getMintDecimals calls in one behaviour.
MaxCalls == 3

Mints == {"mintA", "mintB"}

\* The decimals a mint may have on the ledger; they are fixed when the mint
\* is created.
MintDecimals == {6, 9}

\* The map and the calls: an entry is <<>> while the mint has none and
\* <<decimals>> once it has; call k is idle, awaiting getTokenSupply, returned
\* or raised.
IdleCall == [mint |-> "none", pc |-> "idle", value |-> <<>>]

InitCache ==
    /\ PipelineParked
    /\ single = SingleIdle
    /\ construction = ConstructionIdle
    /\ identical = IdenticalIdle
    /\ estimator = EstimatorIdle
    /\ injector = InjectorIdle
    /\ mintCache \in { [MintCacheIdle EXCEPT
                           !.ledger = l,
                           !.mintToDecimalsMap = [m \in Mints |-> <<>>],
                           !.calls = [k \in 1..MaxCalls |-> IdleCall]] :
                         l \in [Mints -> MintDecimals] }

\* Faulty variant of MapHas: the cache is never consulted.
MapHasNothing(map, mint) == FALSE

\* mintToDecimalsMap.has(mint.toString())
MapHas(map, mint) == map[mint] # <<>>

\* getMintDecimals(connection, mint) up to its return or its await: a hit
\* returns the entry; a miss calls getTokenSupply and is suspended.
GetMintDecimals(k, mint) ==
    /\ mintCache.calls[k].pc = "idle"
    /\ \A j \in 1..(k - 1) : mintCache.calls[j].pc # "idle"
    /\ mintCache' =
         IF MapHas(mintCache.mintToDecimalsMap, mint)
           THEN [mintCache EXCEPT
                   !.calls[k] = [mint |-> mint, pc |-> "returned",
                                 value |-> mintCache.mintToDecimalsMap[mint]]]
           ELSE [mintCache EXCEPT
                   !.calls[k] = [mint |-> mint, pc |-> "awaiting", value |-> <<>>],
                   !.getTokenSupply = @ + 1]
    /\ UNCHANGED <<pipeline, single, construction, identical, estimator, injector>>

\* getTokenSupply answers call k: the entry is set and the decimals returned.
GetTokenSupplyAnswers(k) ==
    /\ mintCache.calls[k].pc = "awaiting"
    /\ LET mint == mintCache.calls[k].mint
           decimals == mintCache.ledger[mint]
       IN  mintCache' =
             [mintCache EXCEPT
                !.mintToDecimalsMap[mint] = <<decimals>>,
                !.calls[k].pc = "returned",
                !.calls[k].value = <<decimals>>]
    /\ UNCHANGED <<pipeline, single, construction, identical, estimator, injector>>

\* getTokenSupply raises: getMintDecimals raises with it, the map untouched.
GetTokenSupplyRaises(k) ==
    /\ mintCache.calls[k].pc = "awaiting"
    /\ mintCache' = [mintCache EXCEPT !.calls[k].pc = "raised"]
    /\ UNCHANGED <<pipeline, single, construction, identical, estimator, injector>>

NextCache ==
    \/ \E k \in 1..MaxCalls, mint \in Mints : GetMintDecimals(k, mint)
    \/ \E k \in 1..MaxCalls : GetTokenSupplyAnswers(k)
    \/ \E k \in 1..MaxCalls : GetTokenSupplyRaises(k)

SpecCache == InitCache /\ [][NextCache]_vars

----------------------------------------------------------------------------
(* Properties.                                                              *)

\* C1: MultiTransactionPayload.execute (part_003) returns exactly one outcome
\* per input request, in input order: outcome i carries the i-th entry of
\* transactionsData, the i-th compiled transaction and the settled result of
\* the i-th promise, whatever the mix of fulfilled and rejected outcomes.
C1_OneOutcomePerRequestInOrder ==
    (version = "abort" /\ phase = "returned") =>
        /\ DOMAIN results = Requests
        /\ Len(transactions) = n
        /\ \A i \in Requests :
              /\ results[i].transactionData = i
              /\ results[i].transaction = transactions[i]
              /\ transactions[i].data = i
              /\ results[i].status = outcome[i].status
              /\ results[i].reason = outcome[i].reason

\* C1 happens: a batch of two has returned, the first outcome fulfilled and
\* the second rejected.
C1_ReturnedMixedOutcomes ==
    /\ version = "abort"
    /\ phase = "returned"
    /\ n = 2
    /\ results[1].status = "fulfilled"
    /\ results[2].status = "rejected"

\* C2: in a batch, the step in which transaction i fails for good (its
\* outcome becomes rejected) leaves every other transaction's outcome,
\* cancellation signal, sender and watcher as they were and does not end the
\* batch call; the outcome and the signal of a transaction j change only in
\* steps of j's own sender or watcher; and the batch call, once the
\* coordinators run, raises for no reason other than the length assertion on
\* what the signer returned.
C2_FailureIsolation ==
    [][ /\ \A i \in Requests :
              (outcome[i].status = "pending" /\ outcome'[i].status = "rejected")
                 => /\ \A j \in Requests \ {i} :
                          /\ outcome'[j] = outcome[j]
                          /\ aborted'[j] = aborted[j]
                          /\ spc'[j] = spc[j]
                          /\ wst'[j] = wst[j]
                    /\ phase' = phase
                    /\ raised' = raised
        /\ \A j \in Requests :
              (outcome'[j] # outcome[j] \/ aborted'[j] # aborted[j])
                 => (spc'[j] # spc[j] \/ wst'[j] # wst[j])
        /\ (phase = "running" /\ phase' = "raised")
              => (raised' = "assert" /\ Len(signedTransactions) # n)
      ]_vars

\* C2 happens: the first transaction of a batch of two has failed, the second
\* one is still being broadcast with its signal untouched.
C2_OtherStillRunning ==
    /\ n = 2
    /\ outcome[1].status = "rejected"
    /\ outcome[2].status = "pending"
    /\ spc[2] = "sending"
    /\ wst[2] = "pending"
    /\ ~aborted[2]

\* C3: once the watcher has observed a successful confirmation while the
\* outcome was still open, no later step of the send loop turns the outcome
\* into 'block height exceeded'.
C3_ConfirmedNeverExpires ==
    [][ \A i \in Requests :
           (wst[i] = "ok" /\ outcome[i].status = "pending")
              => outcome'[i] # Rejected("expired") ]_vars

\* C4: with the priority fee enabled, once the simulation of a request has
\* failed (simulateTransaction raised, or its result reports an execution
\* error) execute raises the aggregate simulation error when the simulations
\* are over, and no transaction of the batch is ever broadcast.
C4_FailedSimulationStopsBatch ==
    simFailed =>
        /\ phase \in {"simulating", "raised"}
        /\ phase = "raised" => raised = "MultiTransactionSimulationError"
        /\ \A i \in Requests : spc[i] = "idle" /\ retry[i] = 0

C6_TimeoutEndsCoordinator ==
    [][ (~elapsed /\ elapsed' /\ outcome[1].status = "pending")
           => (outcome'[1] = Rejected("timedOut") /\ Cancelled(1)') ]_vars

\* C7: a sender issues a broadcast only in the step in which it has read a
\* block height strictly below lastValidBlockHeight, and a sender that has
\* read a height at or past the bound never broadcasts again.
C7_BroadcastOnlyBelowBound ==
    [][ \A i \in Requests :
           /\ (spc'[i] = "sending" /\ spc[i] # "sending")
                 => (spc[i] = "reading" /\ blockHeight < lastValidBlockHeight)
           /\ spc[i] = "expired" => spc'[i] = "expired"
      ]_vars

\* C7 happens: a sender has broadcast, read a height at the bound and
\* stopped.
C7_StoppedAtBound ==
    \E i \in Requests :
        /\ spc[i] = "expired"
        /\ retry[i] >= 1
        /\ blockHeight >= lastValidBlockHeight

\* C8: a sender whose broadcast was answered 'already processed' comes from
\* a broadcast, stays ended (no further broadcast, no further retry), did not
\* reject the outcome in that step, and whenever the outcome is a failure the
\* failure is the watcher's.
C8_AlreadyProcessedEndsQuietly ==
    [][ \A i \in Requests :
           spc'[i] = "alreadyProcessed" =>
              /\ spc[i] \in {"sending", "alreadyProcessed"}
              /\ retry'[i] = retry[i]
              /\ spc[i] = "sending"
                    => (outcome'[i] = outcome[i] \/ outcome'[i] = Fulfilled)
              /\ outcome'[i].status = "rejected"
                    => outcome'[i].reason \in WatcherThrew
      ]_vars

\* C8 happens: the sender ended on 'already processed', the watcher saw the
\* confirmation, and the outcome is the signature.
C8_AlreadyProcessedThenSignature ==
    \E i \in Requests :
        /\ spc[i] = "alreadyProcessed"
        /\ wst[i] = "ok"
        /\ outcome[i] = Fulfilled

\* C9: after three 'Blockhash not found' answers, an acknowledged broadcast
\* and a confirmation, all before the bound, the outcome does not become a
\* failure.
C9_RetriedThenSignature ==
    [][ (/\ answers = "bnf3ThenOk"
         /\ wst[1] = "ok"
         /\ outcome[1].status = "pending"
         /\ blockHeight < lastValidBlockHeight)
           => outcome'[1].status # "rejected" ]_vars

\* C10, as the spec states it: the batch call raises only the configuration
\* error or the aggregate simulation error.
C10_RaisesOnlyConfigOrSimulation ==
    phase = "raised" =>
        raised \in {"SIGN_FUNCTION_REQUIRED", "MultiTransactionSimulationError"}

\* C10, amended: the batch call raises only the configuration error, the
\* aggregate simulation error, the failure of a batch-wide step that precedes
\* every broadcast (getLatestBlockhash, the signer), or the length assertion
\* on what the signer returned; the first three are raised before any
\* coordinator is launched, and every failure of a launched transaction is
\* reported in the outcomes that execute returns.
C10_RaisesOnlyBatchWide ==
    /\ phase = "raised" =>
          /\ raised \in {"SIGN_FUNCTION_REQUIRED", "MultiTransactionSimulationError",
                         "rpc", "signer", "assert"}
          /\ raised # "assert" => (Launched = {} /\ signedTransactions = <<>>)
          /\ raised = "assert" => (version = "abort" /\ Len(signedTransactions) # n)
    /\ phase = "returned" =>
          \A i \in Launched :
              /\ results[i].status = outcome[i].status
              /\ results[i].reason = outcome[i].reason
              /\ results[i].status \in {"fulfilled", "rejected"}

\* C10 happens: getLatestBlockhash or the signer failed in execute proper,
\* with no simulation error, and the call raised.
C10_RaisedBatchWide ==
    /\ phase = "raised"
    /\ raised \in {"rpc", "signer"}
    /\ ~enablePriorityFee

\* C11: in TransactionPayload.execute with the priority fee enabled, once the
\* simulation has failed (simulate raised, or the simulation result reports
\* an execution error) the call has raised, simulateTransaction was called at
\* most once, and neither the signing function nor sendRawTransaction was
\* called for the execution.
C11_FailedSimulationRaisedAtOnce ==
    single.simFailed =>
        /\ single.pc = "raised"
        /\ single.simCalls <= 1
        /\ single.signCalls = 0
        /\ single.sends = 0

\* C13: every error thrown at the simulation, send or confirmation stage of
\* TransactionPayload.execute reaches the caller classified: the one
\* not-enough-SOL error when the text of the translated error includes one of
\* the three insufficient-balance patterns, else the translated error itself;
\* in particular a send failure with 'custom program error: 0x1' is
\* surfaced as not-enough-SOL.
C13_ErrorsLeaveClassified ==
    (single.pc = "raised" /\ single.sign) =>
        LET t == TranslateError(single.err, single.idl)
            matches ==
                \/ Includes(t.message, <<"Attempt to debit an account but found no record of a prior credit.">>)
                \/ Includes(t.message, <<"custom program error: 0x", "1">>)
                \/ Includes(t.message, <<"insufficient funds">>)
        IN  /\ matches => single.surfaced = NotEnoughSol
            /\ ~matches => single.surfaced = t
            /\ single.err.message
                  = <<"failed to send transaction:", "custom program error: 0x", "1">>
                  => single.surfaced.message
                        = <<"An account does not have enough SOL for transaction">>

\* C13 happens: a broadcast was made, the run threw an error with the text
\* 'insufficient funds', and the caller got not-enough-SOL; elsewhere a
\* 'Blockhash not found' came out unchanged.
C13_SendFailureClassified ==
    /\ single.pc = "raised"
    /\ single.sends >= 1
    /\ Includes(single.err.message, <<"insufficient funds">>)
    /\ single.surfaced = NotEnoughSol

\* C12: once a payload, single or batch, has been constructed from an empty
\* list of requests or from a request with no instructions or no fee payer,
\* the construction has failed with a configuration error and no network
\* call has been made.
C12_MalformedRequestFailsConstruction ==
    LET reqs == construction.requests
        malformed ==
            \/ Len(reqs) = 0
            \/ \E i \in 1..Len(reqs) : reqs[i].instructions = 0 \/ ~reqs[i].feePayer
    IN  (construction.result # "idle" /\ malformed) =>
            /\ construction.result \in {"At least one transaction is required",
                                        "No instructions provided",
                                        "Fee payer is required"}
            /\ construction.rpc = 0

\* C14: when execute has returned for a batch of five requests with the same
\* instructions and the same fee payer, the five outcomes are fulfilled and
\* their signatures are pairwise distinct.
C14_IdenticalRequestsDistinctSignatures ==
    (/\ identical.pc = "returned"
     /\ \A i, j \in 1..BatchOfFive : identical.requests[i] = identical.requests[j])
        => /\ \A i \in 1..BatchOfFive : identical.outcome[i] # <<>>
           /\ \A i, j \in 1..BatchOfFive :
                 i # j => identical.outcome[i] # identical.outcome[j]

\* C15: whatever the samples, the level and the cap, the fee a call of
\* getRecentPriorityFee has answered is at most the cap, on the normal path
\* and on the fallback path.
C15_FeeAtMostCap ==
    \A l \in DOMAIN estimator.answer :
        estimator.answer[l].fee <= estimator.maxFeeCap

\* C15 happens: on the normal path the calculated fee was above the cap and
\* the cap was answered.
C15_CapBinds ==
    \E l \in DOMAIN estimator.answer :
        /\ estimator.answer[l].path = "normal"
        /\ (estimator.answer[l].medianFee * Multipliers(l) + 9) \div 10
              > estimator.maxFeeCap
        /\ estimator.answer[l].fee = estimator.maxFeeCap

\* C16: for the same samples and the same cap the answers are ordered by
\* level: fee(low) <= fee(medium) <= fee(high).
C16_MonotoneInLevel ==
    /\ {"low", "medium"} \subseteq DOMAIN estimator.answer
          => estimator.answer["low"].fee <= estimator.answer["medium"].fee
    /\ {"medium", "high"} \subseteq DOMAIN estimator.answer
          => estimator.answer["medium"].fee <= estimator.answer["high"].fee
    /\ {"low", "high"} \subseteq DOMAIN estimator.answer
          => estimator.answer["low"].fee <= estimator.answer["high"].fee

\* C16 happens: the three levels were asked on the normal path and the fees
\* rise strictly.
C16_ThreeLevelsRise ==
    /\ DOMAIN estimator.answer = PriorityLevels
    /\ ~estimator.fetchRaises
    /\ estimator.answer["low"].fee < estimator.answer["medium"].fee
    /\ estimator.answer["medium"].fee < estimator.answer["high"].fee

\* C17: when fetching the samples raises, every call has answered (it did not
\* raise) the smaller of the cap and the fixed fallback of its level: 1000
\* for low, 5000 for medium, 25000 for high.
C17_FallbackWhenFetchRaises ==
    estimator.fetchRaises =>
        \A l \in DOMAIN estimator.answer :
            LET fixed == IF l = "low" THEN 1000
                         ELSE IF l = "medium" THEN 5000 ELSE 25000
            IN  /\ estimator.answer[l].path = "fallback"
                /\ estimator.answer[l].fee
                      = IF fixed <= estimator.maxFeeCap THEN fixed
                        ELSE estimator.maxFeeCap

\* C17 happens: the fetch raised, the cap is above every fallback, and the
\* three levels were answered 1000, 5000 and 25000.
C17_ThreeFallbacks ==
    /\ estimator.fetchRaises
    /\ DOMAIN estimator.answer = PriorityLevels
    /\ estimator.answer["low"].fee = 1000
    /\ estimator.answer["medium"].fee = 5000
    /\ estimator.answer["high"].fee = 25000

\* C19: the result of replaceNonZeroAndSortPrioritizationFeesAsc holds only
\* samples whose fee is a number above zero, in ascending order of fee, holds
\* each such sample of the input exactly once, and is what the function
\* returns when applied to it again.
C19_FilteredSortedIdempotent ==
    estimator.applied =>
        LET in == estimator.samples
            out == estimator.sorted
        IN  /\ \A i \in 1..Len(out) :
                  /\ ~out[i].prioritizationFee.isNaN
                  /\ out[i].prioritizationFee.value > 0
            /\ \A i, j \in 1..Len(out) :
                  i < j => out[i].prioritizationFee.value <= out[j].prioritizationFee.value
            /\ { out[i] : i \in 1..Len(out) }
                  = { in[k] : k \in { k \in 1..Len(in) :
                                        /\ ~in[k].prioritizationFee.isNaN
                                        /\ in[k].prioritizationFee.value > 0 } }
            /\ \A i, j \in 1..Len(out) : i # j => out[i] # out[j]
            /\ estimator.resorted = out

\* C19 happens: the input held a NaN and two positive fees in descending
\* order; the NaN was dropped and the two came out exchanged.
C19_DroppedAndReordered ==
    /\ estimator.applied
    /\ \E k \in 1..Len(estimator.samples) : estimator.samples[k].prioritizationFee.isNaN
    /\ Len(estimator.sorted) = 2
    /\ estimator.sorted[1].slot > estimator.sorted[2].slot
    /\ estimator.sorted[1].prioritizationFee.value < estimator.sorted[2].prioritizationFee.value

\* The median as C20 states it, of an ascending list of positive samples.
C20_StatedMedian(l) ==
    LET list == ReplaceNonZeroAndSortPrioritizationFeesAsc(estimator.samples)
        len == Len(list)
        median == estimator.answer[l].medianFee
    IN  /\ len = 0 => median = 0
        /\ len = 1 => median = list[1].prioritizationFee.value
        /\ (len > 0 /\ len % 2 = 1)
              => median = list[(len + 1) \div 2].prioritizationFee.value
        /\ (len > 0 /\ len % 2 = 0)
              => /\ 2 * median <= list[len \div 2].prioritizationFee.value
                                    + list[(len \div 2) + 1].prioritizationFee.value
                 /\ 2 * median + 1 >= list[len \div 2].prioritizationFee.value
                                    + list[(len \div 2) + 1].prioritizationFee.value

\* C20 as stated: on the normal path the median is 0 for an empty filtered
\* list, the element of a one-element list, the middle element of an
\* odd-length list and the average of the two middle elements rounded down of
\* an even-length list; with an empty filtered list the fee answered is 0 for
\* every level.
C20_MedianAndZeroFee ==
    \A l \in DOMAIN estimator.answer :
        estimator.answer[l].path = "normal" =>
            /\ C20_StatedMedian(l)
            /\ ReplaceNonZeroAndSortPrioritizationFeesAsc(estimator.samples) = <<>>
                  => estimator.answer[l].fee = 0

\* C20 amended: the median is as stated; with an empty filtered list the fee
\* answered is 0 for every level when the cap is not below zero, and the cap
\* itself when it is.
C20_MedianAndZeroFeeUnderCap ==
    \A l \in DOMAIN estimator.answer :
        estimator.answer[l].path = "normal" =>
            /\ C20_StatedMedian(l)
            /\ ReplaceNonZeroAndSortPrioritizationFeesAsc(estimator.samples) = <<>>
                  => estimator.answer[l].fee
                        = IF estimator.maxFeeCap >= 0 THEN 0 ELSE estimator.maxFeeCap

\* C20 happens: every sample was filtered out, the cap is not below zero, and
\* the three levels were answered 0.
C20_AllFilteredOutFeeZero ==
    /\ ~estimator.fetchRaises
    /\ estimator.samples # <<>>
    /\ estimator.maxFeeCap >= 0
    /\ DOMAIN estimator.answer = PriorityLevels
    /\ \A l \in PriorityLevels :
          estimator.answer[l].medianFee = 0 /\ estimator.answer[l].fee = 0

\* C18: a run of the injector on a request that already holds a limit and a
\* price instruction leaves the list as it was: after two or more successive
\* runs the list is the one the first run left, a list that held both from
\* the start is unchanged, and the runs have added at most one limit and one
\* price instruction, and none where there was one.
C18_InjectorIdempotent ==
    LET count(list, kind) == Cardinality({ k \in 1..Len(list) : list[k] = kind })
    IN  (injector.suspended = 0 /\ injector.runs >= 1 /\ ~injector.overlapped) =>
            /\ injector.runs >= 2 => injector.instructions = injector.first
            /\ (/\ count(injector.initial, "SetComputeUnitLimit") > 0
                /\ count(injector.initial, "SetComputeUnitPrice") > 0)
                  => injector.instructions = injector.initial
            /\ \A kind \in {"SetComputeUnitLimit", "SetComputeUnitPrice"} :
                  count(injector.instructions, kind)
                     = IF count(injector.initial, kind) = 0 THEN 1
                       ELSE count(injector.initial, kind)

\* C18 happens: a request of one instruction went through two runs and
\* holds one price and one limit instruction in front of it.
C18_TwoRunsOneOfEach ==
    /\ injector.suspended = 0
    /\ ~injector.overlapped
    /\ injector.runs = 2
    /\ injector.initial = <<"ix">>
    /\ injector.instructions = <<"SetComputeUnitPrice", "SetComputeUnitLimit", "ix">>

\* C21: in TransactionPayload.execute an omitted enablePriorityFee counts as
\* enabled (the freshness window of the execution is not fetched before the
\* simulation was made); with enablePriorityFee false no simulation and no
\* fetch of fee samples is made, the request's instruction list is the
\* caller's, and the transaction that is signed and broadcast holds exactly
\* those instructions.
C21_DisabledFeeLeavesInstructions ==
    /\ (/\ single.option = "omitted"
        /\ single.pc \in {"blockhash", "signing", "running", "returned"})
          => single.epf /\ single.simCalls = 1
    /\ single.option = "false" =>
          /\ single.simCalls = 0
          /\ single.feeFetches = 0
          /\ single.priorityFeeInstructions = <<>>
          /\ single.instructions \in CallerInstructions
          /\ single.pc \in {"signing", "running", "returned"}
                => single.transaction = single.instructions

\* C21 happens: with the option false a transaction of the caller's one
\* instruction was signed, broadcast and confirmed.
C21_DisabledFeeExecuted ==
    /\ single.option = "false"
    /\ single.pc = "returned"
    /\ single.sends >= 1
    /\ single.transaction = <<"ix">>

\* C22 as stated: when an exact priority fee is given, calculatePriorityFee
\* has fetched no fee samples and its price is
\* floor((exact fee in lamports - 5000) * 10^6 / compute-unit budget).
C22_ExactFeeOverrides ==
    (estimator.exactPriorityFee.given /\ estimator.price # <<>>) =>
        /\ estimator.fetches = 0
        /\ estimator.price
              = <<((estimator.exactPriorityFee.lamports - 5000) * 1000000)
                     \div estimator.computeUnit>>

\* C22 amended: an exact fee other than 0 overrides estimation: no fee samples
\* are fetched and the price is (exact fee in lamports - 5000) * 10^6 /
\* compute-unit budget rounded towards zero, which is its floor for an exact
\* fee of at least the base fee of 5000 lamports; an exact fee of 0 counts as
\* not given and the price is the estimator's.
C22_NonZeroExactFeeOverrides ==
    (estimator.exactPriorityFee.given /\ estimator.price # <<>>) =>
        LET lamports == estimator.exactPriorityFee.lamports
            scaled == (lamports - 5000) * 1000000
        IN  /\ lamports >= 5000 =>
                 /\ estimator.fetches = 0
                 /\ estimator.price = <<scaled \div estimator.computeUnit>>
            /\ (lamports # 0 /\ lamports < 5000) =>
                 /\ estimator.fetches = 0
                 /\ estimator.price = <<-((-scaled) \div estimator.computeUnit)>>
            /\ lamports = 0 =>
                 /\ estimator.fetches = 1
                 /\ estimator.price[1] <= estimator.maxFeeCap

\* C22 happens: an exact fee of 5001 lamports and a budget of 3 compute units
\* gave the price 333333 without a fetch.
C22_OneLamportOverThree ==
    /\ estimator.exactPriorityFee = [given |-> TRUE, lamports |-> 5001]
    /\ estimator.computeUnit = 3
    /\ estimator.fetches = 0
    /\ estimator.price = <<333333>>

\* C23: in every reachable state an instruction list that started with at
\* most one compute-unit-limit and at most one compute-unit-price instruction
\* holds at most one of each, also when a run of the injector begins while
\* another is suspended at its fee estimation.
C23_AtMostOneOfEach ==
    LET count(list, kind) == Cardinality({ k \in 1..Len(list) : list[k] = kind })
    IN  \A kind \in {"SetComputeUnitLimit", "SetComputeUnitPrice"} :
            count(injector.initial, kind) <= 1
                => count(injector.instructions, kind) <= 1

\* C24: once the execution of a lone transaction has delivered its outcome
\* (the signature or an error), its sender issues no further
\* sendRawTransaction.
C24_NoBroadcastAfterOutcome ==
    [][(n = 1 /\ outcome[1].status # "pending")
          => ~(spc[1] # "sending" /\ spc'[1] = "sending")]_vars

\* C25: when execute has raised the aggregate simulation error, every request
\* of the batch has been simulated, and the error lists exactly the indices
\* whose simulation failed (simulateTransaction raised, or its result reports
\* an execution error), each once.
C25_AggregateListsFailedIndices ==
    (phase = "raised" /\ raised = "MultiTransactionSimulationError") =>
        /\ \A i \in Requests : simRes[i] \in SimAnswers
        /\ { simulationErrors[k] : k \in 1..Len(simulationErrors) }
              = { i \in Requests : simRes[i] \in {"execErr", "raise"} }
        /\ \A k, l \in 1..Len(simulationErrors) :
              k # l => simulationErrors[k] # simulationErrors[l]

C27_CallsWithinBudget ==
    [][ \A i \in Requests :
          /\ (spc[i] = "sending" /\ spc'[i] = "reading")
                => retry'[i] = retry[i] + 1
          /\ retry'[i] # retry[i]
                => (spc[i] = "sending" /\ spc'[i] = "reading")
          /\ (spc[i] # "sending" /\ spc'[i] = "sending")
                => retry[i] < maxRetries
          /\ retry'[i]
               + (IF spc'[i] \in {"sending", "alreadyProcessed", "sendError"}
                    THEN 1 ELSE 0) <= maxRetries ]_vars

\* C27 happens: with a budget of one, the sender broadcast once, counted it,
\* read a height below the bound and stopped.
C27_BudgetOfOneSpent ==
    /\ maxRetries = 1
    /\ retry[1] = 1
    /\ spc[1] = "exhausted"
    /\ blockHeight < lastValidBlockHeight

\* C28: a sender whose retry budget is used up on a read below
\* lastValidBlockHeight ends without raising: that step rejects nothing and
\* aborts nothing; and the outcome of its coordinator is what the watcher
\* reports: pending while the watcher is, the signature once the watcher has
\* confirmed, the watcher's error once it has failed.
C28_ExhaustedLeavesItToWatcher ==
    [][ \A i \in Requests :
          /\ (spc[i] = "reading" /\ spc'[i] # "reading"
                /\ blockHeight < lastValidBlockHeight /\ retry[i] >= maxRetries
                /\ spc'[i] \notin {"rpcError", "cancelled"})
                => /\ spc'[i] = "exhausted"
                   /\ aborted' = aborted
                   /\ outcome'[i] \in {outcome[i], Fulfilled}
          /\ spc'[i] = "exhausted"
                => \/ wst'[i] = "pending" /\ outcome'[i] = Pending
                   \/ wst'[i] = "ok" /\ outcome'[i] = Fulfilled
                   \/ wst'[i] \in WatcherThrew /\ outcome'[i] = Rejected(wst'[i]) ]_vars

\* C28 happens: the budget of one was used up below the bound while the
\* watcher was waiting, and the watcher's confirmation then gave the
\* signature.
C28_ExhaustedThenConfirmed ==
    /\ maxRetries = 1
    /\ spc[1] = "exhausted"
    /\ blockHeight < lastValidBlockHeight
    /\ wst[1] = "ok"
    /\ outcome[1] = Fulfilled

\* C28 happens also the other way: the watcher reported an on-chain error
\* after the sender had used up its budget, and that error is the outcome.
C28_ExhaustedThenFailed ==
    /\ maxRetries = 1
    /\ spc[1] = "exhausted"
    /\ wst[1] = "failed"
    /\ outcome[1] = Rejected("failed")

\* C29: a transaction's coordinator yields the signature, and execute reports
\* the transaction as fulfilled, only if the watcher of that transaction
\* returned from confirmTransaction with no on-chain error; an acknowledged
\* broadcast or an 'already processed' answer does not yield it.
C29_SignatureOnlyOnConfirmation ==
    \A i \in Requests :
        /\ outcome[i].status = "fulfilled" => wst[i] = "ok"
        /\ (phase = "returned" /\ i \in Launched /\ results[i].status = "fulfilled")
              => wst[i] = "ok"
        /\ (spc[i] \in {"alreadyProcessed", "exhausted"} /\ wst[i] # "ok")
              => outcome[i].status # "fulfilled"

\* C29 happens: in a batch of two, the first transaction is reported
\* fulfilled after its confirmation, the second rejected although the node
\* answered 'already processed', its watcher having seen an on-chain error.
C29_ProcessedButFailed ==
    /\ n = 2
    /\ phase = "returned"
    /\ results[1].status = "fulfilled"
    /\ wst[1] = "ok"
    /\ spc[2] = "alreadyProcessed"
    /\ wst[2] = "failed"
    /\ results[2].status = "rejected"

\* C30: in batch execute the signer is called once for execution, with one
\* assembled transaction per request, after the freshness window was
\* fetched; and no sender broadcasts, or has broadcast, before that call has
\* returned: whenever a broadcast is under way the window is set, the whole
\* batch is assembled and the signed transactions are there.
C30_BroadcastAfterSigningAll ==
    [][ /\ (phase # "signing" /\ phase' = "signing")
              => /\ phase = "blockhash"
                 /\ lastValidBlockHeight' = blockHeight + Window
                 /\ Len(transactions') = n
                 /\ \A j \in Requests : transactions'[j].data = j
        /\ (phase = "signing" /\ phase' # "signing")
              => /\ \A j \in Requests : spc[j] = "idle" /\ retry[j] = 0
                 /\ phase' \in {"running", "raised"}
        /\ signedTransactions' # signedTransactions
              => (phase = "signing" /\ phase' = "running")
        /\ \A i \in Requests :
              (spc'[i] # "idle" \/ retry'[i] > 0)
                 => /\ phase' \in {"running", "returned", "raised"}
                    /\ i <= Len(signedTransactions')
                    /\ Len(transactions') = n
                    /\ lastValidBlockHeight' >= Window ]_vars

\* C30 happens: both transactions of a batch of two were signed in the one
\* call and the second one is being broadcast.
C30_SecondOfTwoBroadcast ==
    /\ n = 2
    /\ Len(transactions) = 2
    /\ Len(signedTransactions) = 2
    /\ spc[2] = "sending"

\* C31: one batch execute fetches one freshness window for execution: the
\* pair (blockhash, lastValidBlockHeight) is written once, by the fetch that
\* precedes the signing, and both come from the same answer; every
\* transaction of the batch carries that blockhash, before and after the
\* signing; every sender broadcasts only below that lastValidBlockHeight and
\* expires only at or past it; and the pair its watcher is handed does not
\* change while the coordinators run.
C31_OneWindowForTheBatch ==
    [][ /\ <<blockhash, lastValidBlockHeight, transactions>>'
              # <<blockhash, lastValidBlockHeight, transactions>>
              => /\ phase = "blockhash" /\ phase' = "signing"
                 /\ blockhash = 0
                 /\ blockhash' = BlockhashAt(blockHeight)
                 /\ lastValidBlockHeight' = blockHeight + Window
        /\ phase' \in {"signing", "running", "returned"}
              => /\ blockhash' # 0
                 /\ Len(transactions') = n
                 /\ \A j \in Requests : transactions'[j].recentBlockhash = blockhash'
                 /\ \A j \in 1..Len(signedTransactions') :
                       signedTransactions'[j].recentBlockhash = blockhash'
        /\ \A i \in Requests :
              /\ (spc[i] # "sending" /\ spc'[i] = "sending")
                    => blockHeight < lastValidBlockHeight
              /\ (spc[i] # "expired" /\ spc'[i] = "expired")
                    => blockHeight >= lastValidBlockHeight ]_vars

\* C31 happens: in a batch of two the first sender expired at the window's
\* lastValidBlockHeight and the second transaction, compiled with the same
\* blockhash, was confirmed.
C31_TwoUnderOneWindow ==
    /\ n = 2
    /\ spc[1] = "expired"
    /\ blockHeight >= lastValidBlockHeight
    /\ wst[2] = "ok"
    /\ transactions[1].recentBlockhash = blockhash
    /\ transactions[2].recentBlockhash = blockhash

\* C32: when a batch execute has returned, the signature string of every
\* fulfilled outcome is the encoding of signature slot 0 of that outcome's
\* transaction, whether the signing function signed in place or returned new
\* transaction objects.
C32_SignatureIsSlot0OfOutcome ==
    identical.pc = "returned" =>
        \A i \in 1..BatchOfFive :
            identical.results[i].status = "fulfilled" =>
                identical.results[i].value
                    = Bs58Encode(identical.results[i].transaction.signatures[1])

\* C33: provided every ledger and signer call answers or raises, the height
\* goes on to lastValidBlockHeight and confirmTransaction answers, every
\* execute eventually returns its outcomes or raises; and a batch execute
\* returns only in a step in which every coordinator has settled, writes its
\* result in that step and never again, and does return (or raise on its
\* assertions) once they all have.
C33_ExecuteDelivers ==
    /\ <>(phase \in {"returned", "raised"})
    /\ [][ /\ (phase # "returned" /\ phase' = "returned")
                => /\ phase = "running"
                   /\ \A i \in Launched : outcome[i].status # "pending"
           /\ results' # results
                => (phase = "running" /\ phase' = "returned")
           /\ phase = "returned" => phase' = "returned" ]_vars
    /\ (phase = "running" /\ \A i \in Launched : outcome[i].status # "pending")
          ~> (phase \in {"returned", "raised"})

\* C33 happens: a batch of two has returned after its first transaction was
\* confirmed and the sender of the second one had expired.
C33_ReturnedMixedBatch ==
    /\ n = 2
    /\ phase = "returned"
    /\ Len(signedTransactions) = 2
    /\ results[1].status = "fulfilled"
    /\ results[2].status = "rejected"
    /\ results[2].reason = "expired"

\* C34: whenever no injector run is under way and at least one has ended, the
\* caller's original instructions are the suffix of the instruction list,
\* unchanged and in their order, and what precedes them is at most two
\* compute-budget instructions.
C34_InjectorOnlyPrepends ==
    (injector.pc = "idle" /\ injector.runs >= 1 /\ injector.suspended = 0) =>
        LET list == injector.instructions
            added == Len(list) - Len(injector.initial)
        IN  /\ added >= 0
            /\ added <= 2
            /\ SubSeq(list, added + 1, Len(list)) = injector.initial
            /\ \A k \in 1..added :
                  list[k] \in {"SetComputeUnitLimit", "SetComputeUnitPrice"}

\* C35: once execute has computed its budget instructions, the compute-unit
\* limit it injects is at most MAX_COMPUTE_UNIT, whatever consumption between
\* 1 and 1,400,000 the simulation reported, and when it reported none.
C35_LimitWithinMaxComputeUnit ==
    (single.pc \in {"blockhash", "signing", "running", "returned"} /\ single.epf
       /\ HasInstruction(single.priorityFeeInstructions, "SetComputeUnitLimit"))
       => single.computeUnit <= MAX_COMPUTE_UNIT

\* C36: the compute-unit price calculatePriorityFee answers is never below
\* zero, whatever exact fee or maximum fee the caller gave (also below the
\* base fee of 5000 lamports) and for every compute-unit budget of 1 or more.
C36_PriceNeverNegative ==
    (estimator.price # <<>> /\ estimator.computeUnit >= 1
       /\ (estimator.exactPriorityFee.given \/ estimator.maxPriorityFee.given))
       => estimator.price[1] >= 0

\* C37: when the price is estimated under a maximum fee of at least the base
\* fee, what the transaction can cost stays within that maximum: price times
\* compute-unit budget, in micro-lamports, is at most the maximum less the
\* base fee of 5000 lamports, in micro-lamports (the first conjunct keeps the
\* product within the integers of the model, which the right-hand side is).
C37_EstimatedCostWithinMaximum ==
    (/\ estimator.price # <<>>
     /\ estimator.maxPriorityFee.given
     /\ estimator.maxPriorityFee.lamports >= BASE_FEE_LAMPORTS
     /\ estimator.computeUnit >= 1)
       => /\ estimator.fetches = 1
          /\ estimator.price[1] >= 0
          /\ estimator.price[1] <= MAX_SAFE_INTEGER \div estimator.computeUnit
          /\ estimator.price[1] * estimator.computeUnit
                <= (estimator.maxPriorityFee.lamports - BASE_FEE_LAMPORTS)
                      * MICRO_LAMPORTS_PER_LAMPORT

\* C37 happens: under a maximum of 5007 lamports and a budget of 200000
\* compute units the fallback fee of 5000 was capped to 35, which with the
\* base fee costs the 5007 lamports exactly.
C37_FallbackCappedToMaximum ==
    /\ estimator.maxPriorityFee = [given |-> TRUE, lamports |-> 5007]
    /\ estimator.computeUnit = 200000
    /\ estimator.fetchRaises
    /\ estimator.price = <<35>>

\* C38: under any interleaving of getMintDecimals calls the cache only grows:
\* an entry, once set, is never removed nor changed; a lookup that fails sets
\* nothing; and a call that begins when its mint has an entry returns that
\* entry at once, without a getTokenSupply call.
C38_CacheAppendOnly ==
    [][ /\ \A m \in Mints :
              MapHas(mintCache.mintToDecimalsMap, m)
                 => mintCache'.mintToDecimalsMap[m] = mintCache.mintToDecimalsMap[m]
        /\ \A k \in 1..MaxCalls :
              /\ (mintCache.calls[k].pc = "awaiting" /\ mintCache'.calls[k].pc = "raised")
                    => mintCache'.mintToDecimalsMap = mintCache.mintToDecimalsMap
              /\ (/\ mintCache.calls[k].pc = "idle"
                  /\ mintCache'.calls[k].pc # "idle"
                  /\ mintCache.mintToDecimalsMap[mintCache'.calls[k].mint] # <<>>)
                    => /\ mintCache'.calls[k].pc = "returned"
                       /\ mintCache'.calls[k].value
                             = mintCache.mintToDecimalsMap[mintCache'.calls[k].mint]
                       /\ mintCache'.getTokenSupply = mintCache.getTokenSupply ]_vars

\* C38 happens: two calls for one mint asked the ledger, the lookup of the
\* first failing and that of the second setting the entry; a third call for
\* that mint was answered from the cache.
C38_FailedSetThenCached ==
    /\ \A k \in 1..3 : mintCache.calls[k].mint = "mintA"
    /\ mintCache.calls[1].pc = "raised"
    /\ mintCache.calls[2].pc = "returned"
    /\ mintCache.calls[3].pc = "returned"
    /\ mintCache.calls[3].value = mintCache.mintToDecimalsMap["mintA"]
    /\ mintCache.getTokenSupply = 2

====
